---------------------------- MODULE Spec2Model ----------------------------
(***************************************************************************)
(* Model of the semantic retrieval and resolution-inference engine of the  *)
(* defect portal (DefectPortal/modules/genai).                             *)
(*                                                                         *)
(*   Spec       the vector store and the two indexing services             *)
(*   SpecQuery  the search functions over a populated store                *)
(*   SpecOrch   one EnhancedSearch.search call with its two worker tasks   *)
(*   SpecLLM    LLMService.generate against the generation service         *)
(*   SpecChunk  DocumentSearch._split_text on documents of every length    *)
(*   SpecSuggest  ResolutionSuggester.suggest_resolutions on candidates     *)
(*   SpecLoad   VectorStore construction on a directory of any content     *)
(*   SpecLists  construction, adds with any vector list, clears            *)
(*   SpecShared the portal and the indexing script on one directory        *)
(*   SpecRace   a search thread and a reindexing thread, by statement      *)
(*                                                                         *)
(* Representation.  Python strings are TLA+ strings.  An embedding is a    *)
(* pair of integers whose norm is an integer, so that cosine similarity is *)
(* an exact number of thousandths.  A numpy array is the pair              *)
(* <<"ndarray", list>>.  The text of a knowledge document is known by a    *)
(* name and a word count; the word window words[a:b] of text T joined by   *)
(* blanks is written "T[a:b]".  A key absent from a dict has the value     *)
(* Missing.                                                                *)
(***************************************************************************)
EXTENDS Integers, Sequences, FiniteSets, TLC

VARIABLES
    vs,          \* the VectorStore object: its eight in-memory lists
    disk,        \* persist_directory: defects.json and documents.json
    indexed,     \* DefectSimilaritySearch._indexed
    call,        \* the last store / indexing call: arguments and outcome
    ret,         \* the last search call: arguments and result
    orch,        \* the EnhancedSearch.search call in progress
    llm,         \* the LLMService object and its last generate call
    script,      \* the indexing script's process: its own VectorStore
    threads      \* a reindexing thread and a searching thread on the store vs

vars == <<vs, disk, indexed, call, ret, orch, llm, script, threads>>

---------------------------------------------------------------------------
(* Bounds of the model *)

MaxRows == 2        \* rows of the ACC table / records of a direct add call
MaxFiles == 2       \* files of the document tree

(* Program constants *)

TEXT_CAP == 5000            \* doc_text[:5000], content[:5000]
SUMMARY_CAP == 500          \* summary[:500]
FIX_CAP == 1000             \* fix_description[:1000]
TOLERANCE_NUM == 19         \* 0.95 = 19/20
TOLERANCE_DEN == 20
BATCH_SIZE == 256
CHUNK_SIZE == 500
CHUNK_OVERLAP == 50

---------------------------------------------------------------------------
(* Python helpers *)

Missing == "<missing>"
\* The keys of a snapshot written by _save_to_disk.
SNAPSHOT_KEYS == {"ids", "embeddings", "metadata", "documents"}

\* A snapshot file that does not exist (os.path.exists is false).  A file
\* that exists holds a JSON object, a JSON list or text that is not JSON
\* (json); an object has some of the four keys (keys), and its embeddings
\* value is a list or something that cannot be iterated, such as null.
NoFile ==
    [exists |-> FALSE, json |-> "none", keys |-> {}, embeddings_iterable |-> TRUE,
     ids |-> <<>>, embeddings |-> <<>>, metadata |-> <<>>, documents |-> <<>>]

Get(d, default) == IF d = Missing THEN default ELSE d

Min(a, b) == IF a <= b THEN a ELSE b

Trunc(s, n) == IF Len(s) > n THEN SubSeq(s, 1, n) ELSE s

Contains(s, kw) ==
    \E i \in 1..(Len(s) - Len(kw) + 1) : SubSeq(s, i, i + Len(kw) - 1) = kw

IsBlank(s) == \A i \in 1..Len(s) : SubSeq(s, i, i) = " "

RECURSIVE Flatten(_)
Flatten(ss) == IF ss = <<>> THEN <<>> ELSE Head(ss) \o Flatten(Tail(ss))

SeqsUpTo(S, n) == UNION {[1..m -> S] : m \in 0..n}

---------------------------------------------------------------------------
(* Python string methods *)

CharAt(s, i) == SubSeq(s, i, i)

ASCII_UPPERCASE == "ABCDEFGHIJKLMNOPQRSTUVWXYZ"
ASCII_LOWERCASE == "abcdefghijklmnopqrstuvwxyz"

\* The lowercase letter of each uppercase letter.
LOWER_OF ==
    [c \in {CharAt(ASCII_UPPERCASE, i) : i \in 1..Len(ASCII_UPPERCASE)} |->
        CharAt(ASCII_LOWERCASE,
               CHOOSE i \in 1..Len(ASCII_UPPERCASE) : CharAt(ASCII_UPPERCASE, i) = c)]

lower_char(c) == IF c \in DOMAIN LOWER_OF THEN LOWER_OF[c] ELSE c

RECURSIVE lower(_)
lower(s) ==
    IF Len(s) <= 1 THEN lower_char(s)
    ELSE lower(SubSeq(s, 1, Len(s) \div 2)) \o lower(SubSeq(s, Len(s) \div 2 + 1, Len(s)))

IsSpace(c) == c \in {" ", "\n", "\t"}

RECURSIVE lstrip(_)
lstrip(s) ==
    IF s # "" /\ IsSpace(CharAt(s, 1)) THEN lstrip(SubSeq(s, 2, Len(s))) ELSE s

RECURSIVE rstrip(_)
rstrip(s) ==
    IF s # "" /\ IsSpace(CharAt(s, Len(s))) THEN rstrip(SubSeq(s, 1, Len(s) - 1)) ELSE s

strip(s) == rstrip(lstrip(s))

\* str.find + 1: the position of the first occurrence of sep, 0 when absent.
find(s, sep) ==
    IF Contains(s, sep)
    THEN CHOOSE i \in 1..(Len(s) - Len(sep) + 1) :
            /\ SubSeq(s, i, i + Len(sep) - 1) = sep
            /\ \A j \in 1..(i - 1) : SubSeq(s, j, j + Len(sep) - 1) # sep
    ELSE 0

RECURSIVE split(_, _)
split(s, sep) ==
    LET i == find(s, sep)
    IN IF i = 0 THEN <<s>>
       ELSE <<SubSeq(s, 1, i - 1)>> \o split(SubSeq(s, i + Len(sep), Len(s)), sep)

\* s.split(sep, 1)[-1]
after_first(s, sep) ==
    LET i == find(s, sep)
    IN IF i = 0 THEN s ELSE SubSeq(s, i + Len(sep), Len(s))

RECURSIVE join(_, _)
join(sep, parts) ==
    IF parts = <<>> THEN ""
    ELSE IF Len(parts) = 1 THEN parts[1]
    ELSE parts[1] \o sep \o join(sep, Tail(parts))

\* The sequence of the items whose condition holds, in the order written.
RECURSIVE collect(_)
collect(pairs) ==
    IF pairs = <<>> THEN <<>>
    ELSE (IF Head(pairs)[1] THEN <<Head(pairs)[2]>> ELSE <<>>) \o collect(Tail(pairs))

---------------------------------------------------------------------------
(* Embedding provider: embedding_service.py *)

ZeroVector == <<0, 0>>

\* SentenceTransformer.encode: some fixed function of the text.
model_encode(text) ==
    IF Contains(text, "timeout") THEN <<1, 0>>
    ELSE IF Contains(text, "login") THEN <<4, 3>>
    ELSE IF Contains(text, "guide") THEN <<3, 4>>
    ELSE <<0, 1>>

generate_embedding(text) ==
    IF text = "" \/ IsBlank(text) THEN ZeroVector ELSE model_encode(text)

generate_embeddings(texts) ==
    [i \in DOMAIN texts |->
        model_encode(IF texts[i] = "" \/ IsBlank(texts[i]) THEN " " ELSE texts[i])]

JoinNonEmpty(parts) ==
    LET kept == SelectSeq(parts, LAMBDA p : p # "" /\ ~IsBlank(p) /\ p # "nan")
        RECURSIVE J(_)
        J(ps) == IF ps = <<>> THEN ""
                 ELSE IF Len(ps) = 1 THEN ps[1]
                 ELSE ps[1] \o " " \o J(Tail(ps))
    IN J(kept)

create_defect_text(defect) ==
    JoinNonEmpty(<<Get(defect.Summary, ""), Get(defect.Description, ""),
                   Get(defect.Fix_Description, ""), Get(defect.OSF_System, ""),
                   Get(defect.Comment, "")>>)

---------------------------------------------------------------------------
(* Vector store: vector_store.py *)

np_array(e) == <<"ndarray", e>>
tolist(a) == a[2]

EmptyVS ==
    [defect_ids |-> <<>>, defect_embeddings |-> <<>>,
     defect_metadata |-> <<>>, defect_documents |-> <<>>,
     document_ids |-> <<>>, document_embeddings |-> <<>>,
     document_metadata |-> <<>>, document_texts |-> <<>>]

EmptyDisk == [defects_json |-> NoFile, documents_json |-> NoFile]

\* data.get(key, [])
data_get(data, key) == IF key \in data.keys THEN data[key] ELSE <<>>

\* json.load or data.get raises: the except clause logs a warning.
load_raises(file) == file.json # "object"

\* The comprehension over data.get('embeddings', []) raises.
embeddings_raise(file) == "embeddings" \in file.keys /\ ~file.embeddings_iterable

_load_from_disk(s, d) ==
    LET s1 == IF ~d.defects_json.exists \/ load_raises(d.defects_json) THEN s
              ELSE IF embeddings_raise(d.defects_json)
              THEN [s EXCEPT !.defect_ids = data_get(d.defects_json, "ids")]
              ELSE [s EXCEPT
                      !.defect_ids = data_get(d.defects_json, "ids"),
                      !.defect_embeddings =
                          [i \in DOMAIN data_get(d.defects_json, "embeddings") |->
                              np_array(data_get(d.defects_json, "embeddings")[i])],
                      !.defect_metadata = data_get(d.defects_json, "metadata"),
                      !.defect_documents = data_get(d.defects_json, "documents")]
    IN IF ~d.documents_json.exists \/ load_raises(d.documents_json) THEN s1
       ELSE IF embeddings_raise(d.documents_json)
       THEN [s1 EXCEPT !.document_ids = data_get(d.documents_json, "ids")]
       ELSE [s1 EXCEPT
               !.document_ids = data_get(d.documents_json, "ids"),
               !.document_embeddings =
                   [i \in DOMAIN data_get(d.documents_json, "embeddings") |->
                       np_array(data_get(d.documents_json, "embeddings")[i])],
               !.document_metadata = data_get(d.documents_json, "metadata"),
               !.document_texts = data_get(d.documents_json, "documents")]

\* VectorStore.__init__: empty lists, then the snapshots of the directory.
VectorStore(d) == _load_from_disk(EmptyVS, d)

\* Mutant of _save_to_disk: documents.json is never written.
_save_defects_only(s) ==
    [defects_json |->
        [exists |-> TRUE, json |-> "object", keys |-> SNAPSHOT_KEYS,
         embeddings_iterable |-> TRUE,
         ids |-> s.defect_ids,
         embeddings |-> [i \in DOMAIN s.defect_embeddings |->
                            tolist(s.defect_embeddings[i])],
         metadata |-> s.defect_metadata,
         documents |-> s.defect_documents],
     documents_json |-> NoFile]

_save_to_disk(s) ==
    [defects_json |->
        [exists |-> TRUE, json |-> "object", keys |-> SNAPSHOT_KEYS,
         embeddings_iterable |-> TRUE,
         ids |-> s.defect_ids,
         embeddings |-> [i \in DOMAIN s.defect_embeddings |->
                            tolist(s.defect_embeddings[i])],
         metadata |-> s.defect_metadata,
         documents |-> s.defect_documents],
     documents_json |->
        [exists |-> TRUE, json |-> "object", keys |-> SNAPSHOT_KEYS,
         embeddings_iterable |-> TRUE,
         ids |-> s.document_ids,
         embeddings |-> [i \in DOMAIN s.document_embeddings |->
                            tolist(s.document_embeddings[i])],
         metadata |-> s.document_metadata,
         documents |-> s.document_texts]]

\* The state a store call leaves: the object, the directory, how it ended.
Result(s, d, outcome) == [vs |-> s, disk |-> d, outcome |-> outcome]

issue_key(defect, i) == Get(defect.Issue_key, "defect_" \o ToString(i - 1))

defect_meta(defect, i) ==
    [issue_key |-> issue_key(defect, i),
     summary |-> Trunc(Get(defect.Summary, ""), SUMMARY_CAP),
     status |-> Get(defect.Status, ""),
     priority |-> Get(defect.Priority, ""),
     osf_wave |-> Get(defect.OSF_Wave, ""),
     osf_system |-> Get(defect.OSF_System, ""),
     resolution |-> Get(defect.Resolution, ""),
     fix_description |-> Trunc(Get(defect.Fix_Description, ""), FIX_CAP),
     source |-> Get(defect.source, "unknown")]

defect_doc_text(defect) ==
    Trunc(Get(defect.Summary, "") \o " " \o Get(defect.Description, ""), TEXT_CAP)

\* Mutant of add_defects: the records are appended to the corpus, the
\* existing lists are not emptied first.
add_defects_appending(s, d, defects, embeddings) ==
    IF defects = <<>> \/ embeddings = <<>> THEN Result(s, d, "returned")
    ELSE
    LET s2 == [s EXCEPT
                 !.defect_ids = @ \o [i \in DOMAIN defects |-> issue_key(defects[i], i)],
                 !.defect_embeddings = @ \o [i \in DOMAIN defects |-> np_array(embeddings[i])],
                 !.defect_documents = @ \o [i \in DOMAIN defects |-> defect_doc_text(defects[i])],
                 !.defect_metadata = @ \o [i \in DOMAIN defects |-> defect_meta(defects[i], i)]]
    IN Result(s2, _save_to_disk(s2), "returned")

add_defects(s, d, defects, embeddings) ==
    IF defects = <<>> \/ embeddings = <<>> THEN Result(s, d, "returned")
    ELSE
    LET n == Len(defects)
        m == Len(embeddings)
        \* the loop stops with IndexError at the first i past the vectors,
        \* after appending that record's id
        k == Min(n, m)
        ids == [i \in 1..Min(n, m + 1) |-> issue_key(defects[i], i)]
        s2 == [s EXCEPT
                 !.defect_ids = ids,
                 !.defect_embeddings = [i \in 1..k |-> np_array(embeddings[i])],
                 !.defect_documents = [i \in 1..k |-> defect_doc_text(defects[i])],
                 !.defect_metadata = [i \in 1..k |-> defect_meta(defects[i], i)]]
    IN IF m < n THEN Result(s2, d, "IndexError")
       ELSE Result(s2, _save_to_disk(s2), "returned")

document_meta(doc, i) ==
    [filename |-> Get(doc.filename, ""),
     filepath |-> Get(doc.filepath, ""),
     section |-> Get(doc.section, ""),
     page |-> Get(doc.page, ""),
     chunk_index |-> Get(doc.chunk_index, ToString(i - 1))]

add_documents(s, d, documents, embeddings) ==
    IF documents = <<>> \/ embeddings = <<>> THEN Result(s, d, "returned")
    ELSE
    LET n == Len(documents)
        m == Len(embeddings)
        k == Min(n, m)
        ids == [i \in 1..Min(n, m + 1) |->
                   Get(documents[i].id, "doc_" \o ToString(i - 1))]
        s2 == [s EXCEPT
                 !.document_ids = ids,
                 !.document_embeddings = [i \in 1..k |-> np_array(embeddings[i])],
                 !.document_texts =
                     [i \in 1..k |-> Trunc(Get(documents[i].content, ""), TEXT_CAP)],
                 !.document_metadata = [i \in 1..k |-> document_meta(documents[i], i)]]
    IN IF m < n THEN Result(s2, d, "IndexError")
       ELSE Result(s2, _save_to_disk(s2), "returned")

clear_defects(s, d) ==
    LET s2 == [s EXCEPT !.defect_ids = <<>>, !.defect_embeddings = <<>>,
                        !.defect_metadata = <<>>, !.defect_documents = <<>>]
    IN Result(s2, _save_to_disk(s2), "returned")

clear_documents(s, d) ==
    LET s2 == [s EXCEPT !.document_ids = <<>>, !.document_embeddings = <<>>,
                        !.document_metadata = <<>>, !.document_texts = <<>>]
    IN Result(s2, _save_to_disk(s2), "returned")

get_collection_stats(s) ==
    [defect_count |-> Len(s.defect_ids), document_count |-> Len(s.document_ids)]


---------------------------------------------------------------------------
(* Similarity search service, indexing side: defect_similarity.py *)

RECURSIVE embed_in_batches(_, _)
embed_in_batches(texts, i) ==
    IF i > Len(texts) THEN <<>>
    ELSE generate_embeddings(SubSeq(texts, i, Min(i + BATCH_SIZE - 1, Len(texts))))
            \o embed_in_batches(texts, i + BATCH_SIZE)

\* Mutant of within_tolerance: the cache is used only at the full count.
exact_count(cached_count, total_defects) == cached_count >= total_defects

\* cached_count >= total_defects * 0.95
within_tolerance(cached_count, total_defects) ==
    cached_count * TOLERANCE_DEN >= total_defects * TOLERANCE_NUM

\* What one indexing call leaves, and which steps it took.
Indexing(r, flag, cleared, embedded, added) ==
    [vs |-> r.vs, disk |-> r.disk, outcome |-> r.outcome, indexed |-> flag,
     cleared |-> cleared, embedded |-> embedded, added |-> added]

\* Mutant of index_defects: force_reindex is not looked at.
index_defects_unforced(s, d, flag, defects_acc, defects_sit, force_reindex) ==
    LET total_defects == Len(defects_acc) + Len(defects_sit)
        cached_count == get_collection_stats(s).defect_count
        all_defects ==
            [i \in DOMAIN defects_acc |-> [defects_acc[i] EXCEPT !.source = "ACC"]]
            \o [i \in DOMAIN defects_sit |-> [defects_sit[i] EXCEPT !.source = "SIT"]]
        all_texts == [i \in DOMAIN all_defects |-> create_defect_text(all_defects[i])]
        c == IF cached_count > 0 THEN clear_defects(s, d) ELSE Result(s, d, "returned")
    IN IF cached_count > 0 /\ within_tolerance(cached_count, total_defects)
       THEN Indexing(Result(s, d, "returned"), TRUE, FALSE, FALSE, FALSE)
       ELSE IF all_defects = <<>>
       THEN Indexing(Result(s, d, "returned"), flag, FALSE, FALSE, FALSE)
       ELSE Indexing(add_defects(c.vs, c.disk, all_defects, embed_in_batches(all_texts, 1)),
                     TRUE, cached_count > 0, TRUE, TRUE)

index_defects(s, d, flag, defects_acc, defects_sit, force_reindex) ==
    LET total_defects == Len(defects_acc) + Len(defects_sit)
        cached_count == get_collection_stats(s).defect_count
        all_defects ==
            [i \in DOMAIN defects_acc |-> [defects_acc[i] EXCEPT !.source = "ACC"]]
            \o [i \in DOMAIN defects_sit |-> [defects_sit[i] EXCEPT !.source = "SIT"]]
        all_texts == [i \in DOMAIN all_defects |-> create_defect_text(all_defects[i])]
        c == IF cached_count > 0 THEN clear_defects(s, d) ELSE Result(s, d, "returned")
        all_embeddings == embed_in_batches(all_texts, 1)
    IN IF ~force_reindex /\ cached_count > 0
            /\ within_tolerance(cached_count, total_defects)
       THEN Indexing(Result(s, d, "returned"), TRUE, FALSE, FALSE, FALSE)
       ELSE IF all_defects = <<>>
       THEN Indexing(Result(s, d, "returned"), flag, FALSE, FALSE, FALSE)
       ELSE Indexing(add_defects(c.vs, c.disk, all_defects, all_embeddings),
                     TRUE, cached_count > 0, TRUE, TRUE)

---------------------------------------------------------------------------
(* Document indexer: document_search.py *)

supported_extensions == {".txt", ".md", ".pdf", ".docx"}

\* A documents_path that does not exist.
NoDir == [exists |-> FALSE, files |-> <<>>]

window(text, a, b) == text \o "[" \o ToString(a) \o ":" \o ToString(b) \o "]"

\* Mutant of split_from: the next window starts where the last one ended.
RECURSIVE split_from_disjoint(_, _, _, _, _)
split_from_disjoint(text, nwords, start, chunk_size, overlap) ==
    IF start >= nwords THEN <<>>
    ELSE <<window(text, start, Min(start + chunk_size, nwords))>>
            \o split_from_disjoint(text, nwords, start + chunk_size, chunk_size, overlap)

RECURSIVE split_from(_, _, _, _, _)
split_from(text, nwords, start, chunk_size, overlap) ==
    IF start >= nwords THEN <<>>
    ELSE <<window(text, start, Min(start + chunk_size, nwords))>>
            \o split_from(text, nwords, start + chunk_size - overlap, chunk_size, overlap)

_split_text(text, nwords, chunk_size, overlap) ==
    IF nwords <= chunk_size
    THEN (IF nwords > 0 THEN <<text>> ELSE <<>>)
    ELSE split_from(text, nwords, 0, chunk_size, overlap)

\* The heading found in the first three lines; a window of joined words is
\* one long line and has none.
_extract_section(file, chunk_text) ==
    IF chunk_text = file.content THEN file.header ELSE ""

_process_file(file) ==
    IF ~file.readable \/ file.nwords = 0 THEN <<>>
    ELSE LET file_chunks == _split_text(file.content, file.nwords, CHUNK_SIZE, CHUNK_OVERLAP)
         IN [i \in DOMAIN file_chunks |->
                [id |-> file.filename \o "_" \o ToString(i - 1),
                 content |-> file_chunks[i],
                 filename |-> file.filename,
                 filepath |-> file.filepath,
                 section |-> _extract_section(file, file_chunks[i]),
                 page |-> Missing,
                 chunk_index |-> ToString(i - 1)]]

walk_chunks(tree) ==
    Flatten([i \in DOMAIN tree.files |->
                IF tree.files[i].ext \in supported_extensions
                THEN _process_file(tree.files[i]) ELSE <<>>])

load_and_index_documents(s, d, tree, force_reindex) ==
    LET all_chunks == walk_chunks(tree)
        c == IF get_collection_stats(s).document_count > 0
             THEN clear_documents(s, d) ELSE Result(s, d, "returned")
        texts == [i \in DOMAIN all_chunks |-> all_chunks[i].content]
        embeddings == generate_embeddings(texts)
        idle == Indexing(Result(s, d, "returned"), FALSE, FALSE, FALSE, FALSE)
    IN IF ~force_reindex /\ get_collection_stats(s).document_count > 0 THEN idle
       ELSE IF ~tree.exists THEN idle
       ELSE IF all_chunks = <<>> THEN idle
       ELSE Indexing(add_documents(c.vs, c.disk, all_chunks, embeddings), FALSE,
                     get_collection_stats(s).document_count > 0, TRUE, TRUE)

---------------------------------------------------------------------------
(* Inputs: rows of the defect tables, files of the document tree *)

BaseRow ==
    [Issue_key |-> Missing, Summary |-> "", Description |-> "", Status |-> "",
     Priority |-> "", OSF_Wave |-> "", OSF_System |-> "", Resolution |-> "",
     Fix_Description |-> "", Comment |-> "", source |-> Missing]

RowLogin ==
    [BaseRow EXCEPT !.Issue_key = "K1", !.Summary = "login timeout",
                    !.Status = "Closed", !.Resolution = "Fixed",
                    !.Fix_Description = "raised the gateway timeout"]

RowNoKey ==
    [BaseRow EXCEPT !.Summary = "payment page blank", !.Status = "Open"]

RowSameKey ==
    [BaseRow EXCEPT !.Issue_key = "K1", !.Summary = "login page slow",
                    !.Status = "Resolved"]

Rows == {RowLogin, RowNoKey}

\* A table of n rows with distinct keys.
BulkRows(n) ==
    [i \in 1..n |-> [BaseRow EXCEPT !.Issue_key = "B" \o ToString(i),
                                    !.Status = "Open"]]

\* The ACC and SIT tables given to one indexing call.
TablePairs ==
    (SeqsUpTo(Rows, MaxRows) \X {<<>>, <<RowSameKey>>})
    \cup {<<BulkRows(TOLERANCE_NUM), <<>>>>,
          <<BulkRows(TOLERANCE_NUM), <<RowSameKey>>>>,
          <<BulkRows(TOLERANCE_DEN), <<>>>>}

FileGuide ==
    [filepath |-> "kb/guide.md", filename |-> "guide.md", ext |-> ".md",
     content |-> "guide", nwords |-> CHUNK_SIZE + 1, header |-> "Guide",
     readable |-> TRUE]

FileFaq ==
    [filepath |-> "kb/sub/guide.md", filename |-> "guide.md", ext |-> ".md",
     content |-> "login faq", nwords |-> 2, header |-> "", readable |-> TRUE]

FileImage ==
    [filepath |-> "kb/shot.png", filename |-> "shot.png", ext |-> ".png",
     content |-> "", nwords |-> 0, header |-> "", readable |-> TRUE]

FileNotes ==
    [filepath |-> "kb/notes.txt", filename |-> "notes.txt", ext |-> ".txt",
     content |-> "timeout notes", nwords |-> 2, header |-> "", readable |-> TRUE]

WalkOrder == <<FileGuide, FileImage, FileNotes, FileFaq>>

\* The files of a tree, in the order os.walk lists them.
TreeOf(S) == [exists |-> TRUE, files |-> SelectSeq(WalkOrder, LAMBDA f : f \in S)]

Trees ==
    {TreeOf(S) : S \in {T \in SUBSET {WalkOrder[i] : i \in DOMAIN WalkOrder} :
                            Cardinality(T) <= MaxFiles}} \cup {NoDir}

\* Arguments of a direct add call: records, and one vector for each.
RecordLists == SeqsUpTo(Rows, MaxRows)
FewRecordLists == {<<>>, <<RowLogin>>}
ChunkLists == {walk_chunks(t) : t \in Trees \ {NoDir}}
FewChunkLists == {<<>>, walk_chunks(TreeOf({FileGuide}))}
VectorLists(texts) ==
    {generate_embeddings(texts), [i \in DOMAIN texts |-> <<0, 1>>]}


---------------------------------------------------------------------------
(* The store and its indexing services as a state machine *)

DefectCorpus(s) ==
    <<s.defect_ids, s.defect_embeddings, s.defect_metadata, s.defect_documents>>

DocumentCorpus(s) ==
    <<s.document_ids, s.document_embeddings, s.document_metadata, s.document_texts>>

NoCall ==
    [op |-> "none", outcome |-> "returned", force |-> FALSE, total |-> 0,
     cached |-> 0, records |-> <<>>, vectors |-> <<>>, cleared |-> FALSE,
     embedded |-> FALSE, added |-> FALSE, defects_unchanged |-> TRUE,
     documents_unchanged |-> TRUE, defects_kept |-> TRUE, documents_kept |-> TRUE]

NoRet ==
    [op |-> "none", outcome |-> "returned", query |-> "", query_embedding |-> <<>>,
     n_results |-> 0, min_similarity |-> 0, ranked |-> <<>>, semantic |-> <<>>,
     results |-> <<>>, nwords |-> 0, candidates |-> <<>>,
     suggestions |-> <<>>, root_causes |-> <<>>, ai_suggestions |-> "",
     calls |-> <<>>, skip_llm |-> TRUE, defect |-> BaseRow, resolved |-> <<>>,
     exclude_self |-> FALSE,
     insights |-> [total_similar |-> 0, resolved_count |-> 0,
                   resolution_rate |-> 0, avg_similarity |-> 0]]
NoOrch ==
    [pc |-> "idle", query |-> "", min_similarity |-> 0, error |-> "none",
     launched |-> FALSE, similar |-> <<>>, adapter_calls |-> <<>>,
     ai_generated |-> [outcome |-> "none", text |-> ""],
     summary_generated |-> [outcome |-> "none", text |-> ""],
     results |-> [query |-> "", matching_defects |-> [acc |-> <<>>, sit |-> <<>>],
                  similar_defects |-> <<>>, related_documents |-> <<>>,
                  resolution_suggestions |->
                      [keys |-> {}, suggestions |-> <<>>, root_causes |-> <<>>,
                       ai_suggestions |-> ""],
                  context_summary |->
                      [keys |-> {}, overview |-> "", likely_cause |-> "",
                       recommended_action |-> "",
                       historical_insights |->
                           [total_similar |-> 0, resolved_count |-> 0,
                            resolution_rate |-> 0, avg_similarity |-> 0],
                       document_insights |-> <<>>, full_summary |-> ""]],
     ai |-> "none", summary |-> "none", finished |-> <<>>, failed |-> {},
     summary_value |->
         [keys |-> {}, overview |-> "", likely_cause |-> "",
          recommended_action |-> "",
          historical_insights |->
              [total_similar |-> 0, resolved_count |-> 0,
               resolution_rate |-> 0, avg_similarity |-> 0],
          document_insights |-> <<>>, full_summary |-> ""]]
NoLLM ==
    [ollama_available |-> FALSE, op |-> "none", outcome |-> "returned",
     prompt |-> "", max_tokens |-> 0, req_timeout |-> 0,
     reply |-> [error |-> "no request", status |-> 0, json |-> "invalid",
                response |-> Missing],
     mode |-> "none", result |-> ""]

\* No reindex and no search in progress.
NoThreads ==
    [writer |-> [pc |-> "idle", k |-> 0, gen |-> 0],
     reader |-> [pc |-> "idle", outcome |-> "none", query |-> "", n_results |-> 0,
                 min_similarity |-> 0, overlapped |-> FALSE, loop_gen |-> 0,
                 loop_list |-> <<>>, i |-> 0, similarities |-> <<>>, top |-> <<>>,
                 j |-> 0, partial |-> <<>>, results |-> <<>>]]

\* The indexing script before it is started.
NoScript == [pc |-> "none", vs |-> EmptyVS]

\* The call record of a step that takes the store from (vs, disk) to r.
\* The _unchanged fields compare the files, the _kept fields the records a
\* store constructed on the directory would load from them.
Called(op, r, fields) ==
    [f \in DOMAIN NoCall |->
        IF f = "op" THEN op
        ELSE IF f = "outcome" THEN r.outcome
        ELSE IF f = "defects_unchanged"
            THEN DefectCorpus(r.vs) = DefectCorpus(vs)
                 /\ r.disk.defects_json = disk.defects_json
        ELSE IF f = "documents_unchanged"
            THEN DocumentCorpus(r.vs) = DocumentCorpus(vs)
                 /\ r.disk.documents_json = disk.documents_json
        ELSE IF f = "defects_kept"
            THEN DefectCorpus(r.vs) = DefectCorpus(vs)
                 /\ DefectCorpus(VectorStore(r.disk)) = DefectCorpus(VectorStore(disk))
        ELSE IF f = "documents_kept"
            THEN DocumentCorpus(r.vs) = DocumentCorpus(vs)
                 /\ DocumentCorpus(VectorStore(r.disk)) = DocumentCorpus(VectorStore(disk))
        ELSE IF f \in DOMAIN fields THEN fields[f]
        ELSE NoCall[f]]

Init ==
    /\ disk = EmptyDisk
    /\ vs = VectorStore(EmptyDisk)
    /\ indexed = FALSE
    /\ call = NoCall
    /\ ret = NoRet
    /\ orch = NoOrch
    /\ llm = NoLLM
    /\ script = NoScript
    /\ threads = NoThreads

\* A new process: a fresh VectorStore and DefectSimilaritySearch on the directory.
Construct ==
    /\ vs' = VectorStore(disk)
    /\ indexed' = FALSE
    /\ call' = Called("construct", Result(VectorStore(disk), disk, "returned"), <<>>)
    /\ UNCHANGED <<disk, ret, orch, llm, script, threads>>

AddDefectsFrom(lists) ==
    \E defects \in lists :
      \E embeddings \in VectorLists([i \in DOMAIN defects |-> create_defect_text(defects[i])]) :
        LET r == add_defects(vs, disk, defects, embeddings)
        IN /\ vs' = r.vs
           /\ disk' = r.disk
           /\ call' = Called("add_defects", r,
                             [records |-> defects, vectors |-> embeddings])
           /\ UNCHANGED <<indexed, ret, orch, llm, script, threads>>

AddDocumentsFrom(lists) ==
    \E documents \in lists :
      \E embeddings \in VectorLists([i \in DOMAIN documents |-> documents[i].content]) :
        LET r == add_documents(vs, disk, documents, embeddings)
        IN /\ vs' = r.vs
           /\ disk' = r.disk
           /\ call' = Called("add_documents", r,
                             [records |-> documents, vectors |-> embeddings])
           /\ UNCHANGED <<indexed, ret, orch, llm, script, threads>>

ClearDefects ==
    LET r == clear_defects(vs, disk)
    IN /\ vs' = r.vs
       /\ disk' = r.disk
       /\ call' = Called("clear_defects", r, <<>>)
       /\ UNCHANGED <<indexed, ret, orch, llm, script, threads>>

ClearDocuments ==
    LET r == clear_documents(vs, disk)
    IN /\ vs' = r.vs
       /\ disk' = r.disk
       /\ call' = Called("clear_documents", r, <<>>)
       /\ UNCHANGED <<indexed, ret, orch, llm, script, threads>>

IndexDefects ==
    \E tables \in TablePairs, force_reindex \in BOOLEAN :
        LET defects_acc == tables[1]
            defects_sit == tables[2]
            r == index_defects(vs, disk, indexed, defects_acc, defects_sit, force_reindex)
        IN /\ vs' = r.vs
           /\ disk' = r.disk
           /\ indexed' = r.indexed
           /\ call' = Called("index_defects", r,
                             [force |-> force_reindex,
                              total |-> Len(defects_acc) + Len(defects_sit),
                              cached |-> Len(vs.defect_ids),
                              cleared |-> r.cleared, embedded |-> r.embedded,
                              added |-> r.added])
           /\ UNCHANGED <<ret, orch, llm, script, threads>>

LoadAndIndexDocuments ==
    \E tree \in Trees, force_reindex \in BOOLEAN :
        LET r == load_and_index_documents(vs, disk, tree, force_reindex)
        IN /\ vs' = r.vs
           /\ disk' = r.disk
           /\ call' = Called("load_and_index_documents", r,
                             [force |-> force_reindex,
                              cached |-> Len(vs.document_ids),
                              cleared |-> r.cleared, embedded |-> r.embedded,
                              added |-> r.added])
           /\ UNCHANGED <<indexed, ret, orch, llm, script, threads>>

AddDefects == AddDefectsFrom(RecordLists)
AddFewDefects == AddDefectsFrom(FewRecordLists)
AddDocuments == AddDocumentsFrom(ChunkLists)
AddFewDocuments == AddDocumentsFrom(FewChunkLists)

\* The defect side in full, the document side in little.
Next ==
    \/ Construct
    \/ AddDefects
    \/ ClearDefects
    \/ IndexDefects
    \/ AddFewDocuments
    \/ ClearDocuments

Spec == Init /\ [][Next]_vars

\* The document side in full, the defect side in little.
NextDocs ==
    \/ Construct
    \/ AddDocuments
    \/ ClearDocuments
    \/ LoadAndIndexDocuments
    \/ AddFewDefects
    \/ ClearDefects

SpecDocs == Init /\ [][NextDocs]_vars


---------------------------------------------------------------------------
(* Properties of the store and of defect indexing (under Spec) *)

Returned(ops) == call.op \in ops /\ call.outcome = "returned"

C4_WithinToleranceLeavesCorpus ==
    (/\ call.op = "index_defects"
     /\ ~call.force
     /\ call.cached * 20 >= call.total * 19)
        => /\ call.outcome = "returned"
           /\ call.defects_unchanged
           /\ ~call.cleared /\ ~call.embedded /\ ~call.added

\* An unforced call whose cached count is below the row count but within
\* the tolerance.
C4_Witness ==
    /\ call.op = "index_defects" /\ ~call.force
    /\ call.cached < call.total
    /\ call.cached * 20 >= call.total * 19

ExpectedDefectId(defect, i) ==
    IF defect.Issue_key = Missing THEN "defect_" \o ToString(i - 1)
    ELSE defect.Issue_key

ExactlyTheGivenDefects ==
    /\ Len(vs.defect_ids) = Len(call.records)
    /\ Len(vs.defect_embeddings) = Len(call.records)
    /\ Len(vs.defect_metadata) = Len(call.records)
    /\ Len(vs.defect_documents) = Len(call.records)
    /\ \A i \in DOMAIN call.records :
        /\ vs.defect_ids[i] = ExpectedDefectId(call.records[i], i)
        /\ vs.defect_metadata[i].issue_key = vs.defect_ids[i]
        /\ vs.defect_metadata[i].summary = call.records[i].Summary
        /\ vs.defect_metadata[i].status = call.records[i].Status
        /\ tolist(vs.defect_embeddings[i]) = call.vectors[i]

ExactlyTheGivenDocuments ==
    /\ Len(vs.document_ids) = Len(call.records)
    /\ Len(vs.document_embeddings) = Len(call.records)
    /\ Len(vs.document_metadata) = Len(call.records)
    /\ Len(vs.document_texts) = Len(call.records)
    /\ \A i \in DOMAIN call.records :
        /\ vs.document_ids[i] = call.records[i].id
        /\ vs.document_metadata[i].filename = call.records[i].filename
        /\ vs.document_texts[i] = call.records[i].content
        /\ tolist(vs.document_embeddings[i]) = call.vectors[i]

\* Adding the same arguments a second time changes nothing more.
AddTwiceIsAddOnce ==
    /\ \A defects \in RecordLists :
        \A embeddings \in VectorLists([i \in DOMAIN defects |->
                                          create_defect_text(defects[i])]) :
            LET once == add_defects(vs, disk, defects, embeddings)
                twice == add_defects(once.vs, once.disk, defects, embeddings)
            IN twice.vs = once.vs /\ twice.disk = once.disk
    /\ \A documents \in FewChunkLists :
        \A embeddings \in VectorLists([i \in DOMAIN documents |->
                                          documents[i].content]) :
            LET once == add_documents(vs, disk, documents, embeddings)
                twice == add_documents(once.vs, once.disk, documents, embeddings)
            IN twice.vs = once.vs /\ twice.disk = once.disk

NoDuplicates(ids) ==
    \A i, j \in DOMAIN ids : i # j => ids[i] # ids[j]

\* C6: in every reachable state no two records of one corpus have the same id.
C6_IdsUnique ==
    NoDuplicates(vs.defect_ids) /\ NoDuplicates(vs.document_ids)

---------------------------------------------------------------------------
(* Search: vector_store.py, defect_similarity.py, document_search.py *)

\* Similarities are kept in units of 1/SIM_SCALE.
SIM_SCALE == 10000
DEFECT_MIN_SIMILARITY == 5000       \* min_similarity: float = 0.5
DOCUMENT_MIN_SIMILARITY == 2200     \* min_similarity: float = 0.22
PORTAL_MIN_SIMILARITY == 3000       \* min_similarity=0.3 in the portal's call

\* np.linalg.norm of an integer vector whose length is an integer.
norm(v) ==
    LET sq == v[1] * v[1] + v[2] * v[2]
    IN CHOOSE n \in 0..sq : n * n = sq

_cosine_similarity(vec1, vec2) ==
    LET a == tolist(vec1)
        b == tolist(vec2)
        dot_product == a[1] * b[1] + a[2] * b[2]
        norm1 == norm(a)
        norm2 == norm(b)
    IN IF norm1 = 0 \/ norm2 = 0 THEN 0
       ELSE (dot_product * SIM_SCALE) \div (norm1 * norm2)

\* round(sim * 100, 1): a percentage with one decimal, in tenths of a percent.
round_percent(sim) == (sim * 1000 + (SIM_SCALE \div 2)) \div SIM_SCALE

\* Mutant of similarities: the threshold is not applied.
all_similarities(embeddings, query_vec, min_similarity) ==
    [i \in DOMAIN embeddings |->
        [idx |-> i, sim |-> _cosine_similarity(query_vec, embeddings[i])]]

\* The (index, similarity) pairs that meet the threshold, in corpus order.
similarities(embeddings, query_vec, min_similarity) ==
    LET sims == [i \in DOMAIN embeddings |->
                    [idx |-> i, sim |-> _cosine_similarity(query_vec, embeddings[i])]]
    IN SelectSeq(sims, LAMBDA p : p.sim >= min_similarity)

\* Mutant of sort_descending: of equal keys the last one comes first.
RECURSIVE sort_descending_unstable(_)
sort_descending_unstable(pairs) ==
    IF pairs = <<>> THEN <<>>
    ELSE LET j == CHOOSE j \in DOMAIN pairs :
                    /\ \A i \in DOMAIN pairs : pairs[i].sim <= pairs[j].sim
                    /\ \A i \in (j + 1)..Len(pairs) : pairs[i].sim < pairs[j].sim
         IN <<pairs[j]>>
              \o sort_descending_unstable(SubSeq(pairs, 1, j - 1)
                                             \o SubSeq(pairs, j + 1, Len(pairs)))

\* list.sort(key=similarity, reverse=True): stable, equal keys keep their order.
RECURSIVE sort_descending(_)
sort_descending(pairs) ==
    IF pairs = <<>> THEN <<>>
    ELSE LET j == CHOOSE j \in DOMAIN pairs :
                    /\ \A i \in DOMAIN pairs : pairs[i].sim <= pairs[j].sim
                    /\ \A i \in 1..(j - 1) : pairs[i].sim < pairs[j].sim
         IN <<pairs[j]>>
              \o sort_descending(SubSeq(pairs, 1, j - 1) \o SubSeq(pairs, j + 1, Len(pairs)))

\* Mutant of first_n: the slice keeps the whole sequence.
whole_sequence(seq, n) == seq

\* similarities[:n_results] for n_results >= 0
first_n(seq, n) == SubSeq(seq, 1, Min(n, Len(seq)))

\* The pairs a search keeps, best first.
ranked_defects(s, query_embedding, n_results, min_similarity) ==
    IF s.defect_embeddings = <<>> THEN <<>>
    ELSE first_n(sort_descending(similarities(s.defect_embeddings,
                                              np_array(query_embedding),
                                              min_similarity)), n_results)

search_similar_defects(s, query_embedding, n_results, min_similarity) ==
    LET top == ranked_defects(s, query_embedding, n_results, min_similarity)
    IN [j \in DOMAIN top |->
           [issue_key |-> s.defect_ids[top[j].idx],
            similarity |-> round_percent(top[j].sim),
            metadata |-> s.defect_metadata[top[j].idx],
            document |-> s.defect_documents[top[j].idx]]]

ranked_documents(s, query_embedding, n_results, min_similarity) ==
    IF s.document_embeddings = <<>> THEN <<>>
    ELSE first_n(sort_descending(similarities(s.document_embeddings,
                                              np_array(query_embedding),
                                              min_similarity)), n_results)

search_documents(s, query_embedding, n_results, min_similarity) ==
    LET top == ranked_documents(s, query_embedding, n_results, min_similarity)
    IN [j \in DOMAIN top |->
           [id |-> s.document_ids[top[j].idx],
            similarity |-> round_percent(top[j].sim),
            content |-> s.document_texts[top[j].idx],
            metadata |-> s.document_metadata[top[j].idx]]]

search_by_text(s, query, n_results, min_similarity) ==
    IF query = "" \/ IsBlank(query) THEN <<>>
    ELSE search_similar_defects(s, generate_embedding(query), n_results, min_similarity)

\* DefectSimilarityService.find_similar
find_similar(s, defect, n_results, min_similarity, exclude_self) ==
    LET query_text == create_defect_text(defect)
        query_embedding == generate_embedding(query_text)
        similar == search_similar_defects(s, query_embedding,
                                          IF exclude_self THEN n_results + 1
                                          ELSE n_results,
                                          min_similarity)
        current_key == Get(defect.Issue_key, "")
    IN IF exclude_self
       THEN first_n(SelectSeq(similar, LAMBDA r : r.issue_key # current_key), n_results)
       ELSE similar

\* The test of get_resolved_similar on one result.
resolved_by_status_or_resolution(r) ==
    LET resolved_keywords == <<"closed", "resolved", "done", "fixed", "verified">>
        status == lower(r.metadata.status)
        resolution == lower(r.metadata.resolution)
    IN \/ \E i \in DOMAIN resolved_keywords : Contains(status, resolved_keywords[i])
       \/ \E i \in DOMAIN resolved_keywords : Contains(resolution, resolved_keywords[i])

\* DefectSimilarityService.get_resolved_similar: the loop appends a match and
\* breaks once it holds n_results of them.
get_resolved_similar(s, defect, n_results, min_similarity) ==
    LET similar == find_similar(s, defect, n_results * 3, min_similarity, TRUE)
    IN first_n(SelectSeq(similar, resolved_by_status_or_resolution),
               IF n_results >= 1 THEN n_results ELSE 1)

\* filename or filepath or id
document_key(r) ==
    IF r.metadata.filename # "" THEN r.metadata.filename
    ELSE IF r.metadata.filepath # "" THEN r.metadata.filepath
    ELSE r.id

RECURSIVE dedupe_from(_, _, _, _)
dedupe_from(results, seen, unique, n_results) ==
    IF results = <<>> \/ Len(unique) >= n_results THEN unique
    ELSE LET r == Head(results)
         IN IF document_key(r) \in seen
            THEN dedupe_from(Tail(results), seen, unique, n_results)
            ELSE dedupe_from(Tail(results), seen \cup {document_key(r)},
                             Append(unique, r), n_results)

\* Mutant of _deduplicate_results_by_document: the first n_results, repeats kept.
_first_results(results, n_results) == first_n(results, n_results)

_deduplicate_results_by_document(results, n_results) ==
    dedupe_from(results, {}, <<>>, n_results)

\* DocumentSearch.search. VectorStore has no search_documents_by_keywords:
\* the fallback call raises AttributeError.
document_search(s, query, n_results, min_similarity) ==
    LET semantic == search_documents(s, generate_embedding(query), n_results,
                                     min_similarity)
    IN IF query = "" \/ IsBlank(query)
       THEN [outcome |-> "returned", semantic |-> <<>>, results |-> <<>>]
       ELSE IF semantic = <<>>
       THEN [outcome |-> "AttributeError", semantic |-> semantic, results |-> <<>>]
       ELSE [outcome |-> "returned", semantic |-> semantic,
             results |-> _deduplicate_results_by_document(semantic, n_results)]

---------------------------------------------------------------------------
(* Searches on an indexed store *)

\* DocumentSearch.search_by_defect: the query it builds from the record.
search_by_defect_query(defect) ==
    LET query_parts == <<Get(defect.Summary, ""), Get(defect.Description, ""),
                         Get(defect.OSF_System, ""), Get(defect.Fix_Description, "")>>
    IN join(" ", SelectSeq(query_parts, LAMBDA p : p # "" /\ lower(p) # "nan"))

\* DocumentSearch.search_by_defect
search_by_defect(s, defect, n_results) ==
    document_search(s, search_by_defect_query(defect), n_results,
                    DOCUMENT_MIN_SIMILARITY)

MaxK == 3           \* largest n_results of a search call

\* An open defect that carries a fix description.
RowPatched ==
    [BaseRow EXCEPT !.Issue_key = "K2", !.Summary = "login form rejects users",
                    !.Status = "Open", !.Fix_Description = "patched the login form"]

QueryTables ==
    {<<<<>>, <<>>>>,
     <<<<RowPatched, RowLogin>>, <<RowSameKey>>>>,
     <<<<RowLogin, RowNoKey>>, <<RowSameKey>>>>,
     <<<<RowNoKey, RowLogin>>, <<RowLogin, RowSameKey>>>>}

QueryTrees ==
    {NoDir, TreeOf({FileNotes}), TreeOf({FileGuide, FileNotes}),
     TreeOf({FileGuide, FileNotes, FileFaq})}

\* The store after the portal has indexed its tables and its document folder.
IndexedStore(tables, tree) ==
    LET a == index_defects(VectorStore(EmptyDisk), EmptyDisk, FALSE,
                           tables[1], tables[2], FALSE)
    IN load_and_index_documents(a.vs, a.disk, tree, FALSE)

QueryVectors == {<<1, 0>>, <<4, 3>>, <<5, 12>>, <<0, 0>>, <<-1, 0>>, <<697, 696>>}

Thresholds ==
    {-SIM_SCALE, 0, DOCUMENT_MIN_SIMILARITY, DEFECT_MIN_SIMILARITY, 9600, SIM_SCALE + 1}

Queries == {"", "  ", "guide", "login timeout", "login page", "unrelated words"}

\* Records to search with: blank ones, a stored one and a new one.
QueryDefects ==
    {BaseRow,
     [BaseRow EXCEPT !.Summary = "  ", !.Description = "nan"],
     RowLogin,
     [BaseRow EXCEPT !.Summary = "guide", !.Issue_key = "K9"]}

InitQuery ==
    /\ \E tables \in QueryTables, tree \in QueryTrees :
          /\ vs = IndexedStore(tables, tree).vs
          /\ disk = IndexedStore(tables, tree).disk
    /\ indexed = (vs.defect_ids # <<>>)
    /\ call = NoCall
    /\ ret = NoRet
    /\ orch = NoOrch
    /\ llm = NoLLM
    /\ script = NoScript
    /\ threads = NoThreads

SearchSimilarDefects ==
    \E q \in QueryVectors, k \in 0..MaxK, m \in Thresholds :
        /\ ret = NoRet
        /\ ret' = [NoRet EXCEPT
                     !.op = "search_similar_defects",
                     !.query_embedding = q, !.n_results = k, !.min_similarity = m,
                     !.ranked = ranked_defects(vs, q, k, m),
                     !.results = search_similar_defects(vs, q, k, m)]
        /\ UNCHANGED <<vs, disk, indexed, call, orch, llm, script, threads>>

SearchDocuments ==
    \E q \in QueryVectors, k \in 0..MaxK, m \in Thresholds :
        /\ ret = NoRet
        /\ ret' = [NoRet EXCEPT
                     !.op = "search_documents",
                     !.query_embedding = q, !.n_results = k, !.min_similarity = m,
                     !.ranked = ranked_documents(vs, q, k, m),
                     !.results = search_documents(vs, q, k, m)]
        /\ UNCHANGED <<vs, disk, indexed, call, orch, llm, script, threads>>

SearchByText ==
    \E query \in Queries, k \in 0..MaxK,
       m \in {-SIM_SCALE, 0, PORTAL_MIN_SIMILARITY, DEFECT_MIN_SIMILARITY} :
        /\ ret = NoRet
        /\ ret' = [NoRet EXCEPT
                     !.op = "search_by_text",
                     !.query = query, !.n_results = k,
                     !.min_similarity = m,
                     !.results = search_by_text(vs, query, k, m)]
        /\ UNCHANGED <<vs, disk, indexed, call, orch, llm, script, threads>>

DocumentSearch ==
    \E query \in Queries, k \in 0..MaxK, m \in {-SIM_SCALE, 0, DOCUMENT_MIN_SIMILARITY} :
        LET r == document_search(vs, query, k, m)
        IN /\ ret = NoRet
           /\ ret' = [NoRet EXCEPT
                        !.op = "document_search", !.outcome = r.outcome,
                        !.query = query, !.n_results = k,
                        !.min_similarity = m,
                        !.semantic = r.semantic, !.results = r.results]
           /\ UNCHANGED <<vs, disk, indexed, call, orch, llm, script, threads>>

FindSimilar ==
    \E defect \in QueryDefects, k \in 0..MaxK, m \in Thresholds,
       exclude_self \in BOOLEAN :
        /\ ret = NoRet
        /\ ret' = [NoRet EXCEPT
                     !.op = "find_similar", !.defect = defect,
                     !.exclude_self = exclude_self,
                     !.query = create_defect_text(defect),
                     !.n_results = k, !.min_similarity = m,
                     !.results = find_similar(vs, defect, k, m, exclude_self)]
        /\ UNCHANGED <<vs, disk, indexed, call, orch, llm, script, threads>>

SearchByDefect ==
    \E defect \in QueryDefects, k \in 0..MaxK :
        LET r == search_by_defect(vs, defect, k)
        IN /\ ret = NoRet
           /\ ret' = [NoRet EXCEPT
                        !.op = "search_by_defect", !.outcome = r.outcome,
                        !.defect = defect,
                        !.query = search_by_defect_query(defect),
                        !.n_results = k,
                        !.min_similarity = DOCUMENT_MIN_SIMILARITY,
                        !.semantic = r.semantic, !.results = r.results]
           /\ UNCHANGED <<vs, disk, indexed, call, orch, llm, script, threads>>

GetResolvedSimilar ==
    \E defect \in QueryDefects, k \in 0..MaxK,
       m \in {0, DEFECT_MIN_SIMILARITY} :
        /\ ret = NoRet
        /\ ret' = [NoRet EXCEPT
                     !.op = "get_resolved_similar", !.defect = defect,
                     !.query = create_defect_text(defect),
                     !.n_results = k, !.min_similarity = m,
                     !.semantic = find_similar(vs, defect, k * 3, m, TRUE),
                     !.results = get_resolved_similar(vs, defect, k, m)]
        /\ UNCHANGED <<vs, disk, indexed, call, orch, llm, script, threads>>

NextQuery ==
    \/ GetResolvedSimilar
    \/ SearchSimilarDefects
    \/ SearchDocuments
    \/ SearchByText
    \/ DocumentSearch
    \/ FindSimilar
    \/ SearchByDefect

SpecQuery == InitQuery /\ [][NextQuery]_vars

---------------------------------------------------------------------------
(* Properties of search (under SpecQuery) *)

\* The stored vectors a vector search ran over.
SearchedEmbeddings ==
    IF ret.op = "search_similar_defects" THEN vs.defect_embeddings
    ELSE vs.document_embeddings

\* C2: search_similar_defects and search_documents return at most k results,
\* every result stands for a stored record whose cosine similarity to the
\* query vector is at least min_similarity, and the reported similarities do
\* not increase along the list.
C2_SearchBoundedFilteredSorted ==
    ret.op \in {"search_similar_defects", "search_documents"} =>
        /\ Len(ret.results) <= ret.n_results
        /\ Len(ret.ranked) = Len(ret.results)
        /\ \A j \in DOMAIN ret.results :
              /\ ret.ranked[j].idx \in DOMAIN SearchedEmbeddings
              /\ ret.ranked[j].sim =
                    _cosine_similarity(np_array(ret.query_embedding),
                                       SearchedEmbeddings[ret.ranked[j].idx])
              /\ ret.ranked[j].sim >= ret.min_similarity
              /\ ret.results[j].similarity = round_percent(ret.ranked[j].sim)
        /\ \A j \in 1..(Len(ret.results) - 1) :
              ret.results[j].similarity >= ret.results[j + 1].similarity

\* A search cut to k = 2 of three records that meet the threshold, with
\* two different similarities, while another record is below the threshold.
C2_Witness ==
    /\ ret.op = "search_documents"
    /\ ret.n_results = 2
    /\ Len(ret.results) = 2
    /\ ret.results[1].similarity > ret.results[2].similarity
    /\ Len(similarities(vs.document_embeddings, np_array(ret.query_embedding),
                        ret.min_similarity)) = 3
    /\ Len(vs.document_embeddings) = 4

\* C10: a document search that returns holds no two results with the same
\* metadata filename, and each result is the first (best ranked) of the
\* semantic hits of its file.
C10_OneResultPerFilename ==
    (ret.op = "document_search" /\ ret.outcome = "returned") =>
        /\ \A i, j \in DOMAIN ret.results :
              i # j => ret.results[i].metadata.filename
                          # ret.results[j].metadata.filename
        /\ \A i \in DOMAIN ret.results :
              \E p \in DOMAIN ret.semantic :
                  /\ ret.semantic[p] = ret.results[i]
                  /\ \A q \in 1..(p - 1) :
                        ret.semantic[q].metadata.filename
                            # ret.results[i].metadata.filename

\* Several chunks of one file were semantic hits and one of them is returned.
C10_Witness ==
    /\ ret.op = "document_search"
    /\ ret.outcome = "returned"
    /\ Len(ret.results) >= 2
    /\ \E p, q \in DOMAIN ret.semantic :
          /\ p < q
          /\ ret.semantic[p].metadata.filename = ret.semantic[q].metadata.filename
          /\ ret.semantic[p].id # ret.semantic[q].id
---------------------------------------------------------------------------
(* Generative adapter: llm_service.py *)

DEFAULT_TIMEOUT == 60       \* timeout: int = 60
None == "<None>"

\* The bullet character that starts a line of a generated list.
BULLET == "*"

bullets(items) == join("\n", [i \in DOMAIN items |-> BULLET \o " " \o items[i]])

_generate_resolution_suggestions(prompt) ==
    LET p == lower(prompt)
        suggestions == collect(<<
            <<Contains(p, "timeout"),
              "Review and adjust timeout configurations in the affected service">>,
            <<Contains(p, "validation"),
              "Check input validation logic and add proper error handling">>,
            <<Contains(p, "payment"),
              "Verify payment gateway integration and retry mechanisms">>,
            <<Contains(p, "database") \/ Contains(p, "db"),
              "Check database connection pool and query optimization">>,
            <<Contains(p, "api"),
              "Review API endpoint configuration and authentication">>,
            <<Contains(p, "null") \/ Contains(p, "empty"),
              "Add null checks and input validation">> >>)
        defaults == <<"Review the error logs for detailed stack traces",
                      "Check recent code changes in the affected module",
                      "Verify configuration settings match expected values">>
    IN bullets(first_n(IF suggestions = <<>> THEN defaults ELSE suggestions, 3))

_generate_summary(prompt) ==
    LET lines == split(prompt, "\n")
        part(line) ==
            IF Contains(lower(line), "summary:")
            THEN <<strip(after_first(line, ":"))>>
            ELSE IF Contains(lower(line), "defect") /\ Contains(line, ":")
            THEN <<Trunc(strip(after_first(line, ":")), 100)>>
            ELSE <<>>
        summary_parts == Flatten([i \in DOMAIN lines |-> part(lines[i])])
    IN IF summary_parts # <<>>
       THEN "This defect involves " \o Trunc(summary_parts[1], 200)
            \o ". Based on similar past issues, investigation should focus on common failure points in this area."
       ELSE "Analysis of the defect indicates potential issues in the affected system component. Review similar resolved defects for resolution patterns."

_generate_root_cause(prompt) ==
    LET p == lower(prompt)
        causes == collect(<<
            <<Contains(p, "error"), "Error handling gaps in the application logic">>,
            <<Contains(p, "timeout"), "Network latency or service response time issues">>,
            <<Contains(p, "null"), "Missing null pointer checks">>,
            <<Contains(p, "data"), "Data validation or transformation issues">> >>)
    IN "Potential root causes:\n"
        \o bullets(IF causes = <<>>
                   THEN <<"Further investigation needed to determine root cause">>
                   ELSE causes)

_generate_fallback(prompt) ==
    LET prompt_lower == lower(prompt)
    IN IF Contains(prompt_lower, "suggest") /\ Contains(prompt_lower, "resolution")
       THEN _generate_resolution_suggestions(prompt)
       ELSE IF Contains(prompt_lower, "summar")
       THEN _generate_summary(prompt)
       ELSE IF Contains(prompt_lower, "root cause") \/ Contains(prompt_lower, "cause")
       THEN _generate_root_cause(prompt)
       ELSE "AI analysis not available. Please install Ollama for full AI capabilities."

\* What one generate call gives its caller.
Generated(outcome, mode, text) == [outcome |-> outcome, mode |-> mode, text |-> text]

\* Mutant of _generate_ollama: no except clause around the request.
_generate_ollama_unguarded(prompt, reply) ==
    IF reply.error # "none" THEN Generated(reply.error, "ollama", "")
    ELSE IF reply.status = 200
    THEN IF reply.json = "invalid" THEN Generated("JSONDecodeError", "ollama", "")
         ELSE IF reply.json = "list" \/ reply.response = None
         THEN Generated("AttributeError", "ollama", "")
         ELSE Generated("returned", "ollama", strip(Get(reply.response, "")))
    ELSE Generated("returned", "fallback", _generate_fallback(prompt))

\* requests.post raises (reply.error), or answers with a status and a body;
\* response.json() raises on a body that is not JSON; .get or .strip raise
\* AttributeError on a body that is not an object with a string response.
_generate_ollama(prompt, reply) ==
    IF reply.error # "none"
    THEN Generated("returned", "fallback", _generate_fallback(prompt))
    ELSE IF reply.status = 200
    THEN IF reply.json = "invalid" \/ reply.json = "list" \/ reply.response = None
         THEN Generated("returned", "fallback", _generate_fallback(prompt))
         ELSE Generated("returned", "ollama", strip(Get(reply.response, "")))
    ELSE Generated("returned", "fallback", _generate_fallback(prompt))

generate(ollama_available, prompt, reply) ==
    IF ollama_available THEN _generate_ollama(prompt, reply)
    ELSE Generated("returned", "fallback", _generate_fallback(prompt))

\* _check_ollama: GET /api/tags, the model names before the colon.
_check_ollama(model_name, tags) ==
    /\ tags.error = "none"
    /\ tags.status = 200
    /\ \E i \in DOMAIN tags.models : Contains(tags.models[i], model_name)

---------------------------------------------------------------------------
(* The generative adapter as a state machine *)

MODEL_NAME == "mistral"

Reply(error, status, json, response) ==
    [error |-> error, status |-> status, json |-> json, response |-> response]

\* No request was sent.
NoReply == NoLLM.reply

\* Outcomes of POST /api/generate.
GenerateReplies ==
    {Reply("none", 200, "object", "  Restart the gateway. \n"),
     Reply("none", 200, "object", Missing),
     Reply("none", 200, "object", None),
     Reply("none", 200, "list", Missing),
     Reply("none", 200, "invalid", Missing),
     Reply("none", 500, "object", Missing),
     Reply("none", 404, "invalid", Missing),
     Reply("Timeout", 0, "invalid", Missing),
     Reply("ConnectionError", 0, "invalid", Missing)}

\* Outcomes of GET /api/tags.
TagsReplies ==
    {[error |-> "ConnectionError", status |-> 0, models |-> <<>>],
     [error |-> "none", status |-> 500, models |-> <<>>],
     [error |-> "none", status |-> 200, models |-> <<"llama2">>],
     [error |-> "none", status |-> 200, models |-> <<"llama2", "mistral">>]}

Prompts ==
    {"",
     "hello",
     "Suggest a resolution for the login TIMEOUT",
     "suggest resolutions: payment api returned null from the database, validation empty",
     "Please suggest possible resolutions.",
     "Summarize\nSummary:  Login fails  \nDefect: K1",
     "Provide a brief analysis summary for this defect:\n\nDefect: login timeout\nStatus: N/A",
     "summarise this",
     "Root Cause of the error: data was null after a timeout",
     "what is the cause"}

\* max_tokens, and timeout: Optional[int], absent or one value
GenerateArgs == {<<500, <<>>>>, <<200, <<30>>>>}

NewLLMService ==
    \E tags \in TagsReplies :
        /\ llm' = [NoLLM EXCEPT !.ollama_available = _check_ollama(MODEL_NAME, tags),
                                !.op = "init"]
        /\ UNCHANGED <<vs, disk, indexed, call, ret, orch, script, threads>>

Generate ==
    \E prompt \in Prompts, args \in GenerateArgs,
       reply \in (IF llm.ollama_available THEN GenerateReplies ELSE {NoReply}) :
        LET max_tokens == args[1]
            timeout == args[2]
            g == generate(llm.ollama_available, prompt, reply)
        IN /\ llm' = [llm EXCEPT
                        !.op = "generate", !.outcome = g.outcome,
                        !.prompt = prompt, !.max_tokens = max_tokens,
                        !.req_timeout = IF timeout # <<>> THEN timeout[1]
                                        ELSE DEFAULT_TIMEOUT,
                        !.reply = reply,
                        !.mode = g.mode, !.result = g.text]
           /\ UNCHANGED <<vs, disk, indexed, call, ret, orch, script, threads>>

NextLLM ==
    \/ NewLLMService
    \/ Generate

SpecLLM == Init /\ [][NextLLM]_vars

\* The request of the last generate call failed: it raised, answered with a
\* status other than 200, or its body could not be decoded.
RequestFailed ==
    /\ llm.reply # NoReply
    /\ \/ llm.reply.error # "none"
       \/ llm.reply.status # 200
       \/ llm.reply.json = "invalid"

\* C9: generate never raises; when the service is unavailable, the request
\* times out or fails, the status is not 200 or the body cannot be decoded,
\* the result is the rule-based fallback text for the prompt; a fallback call
\* that follows a fallback call with the same prompt gives the same text.
C9_GenerateNeverRaises ==
    /\ [](llm.op = "generate" =>
            /\ llm.outcome = "returned"
            /\ (~llm.ollama_available \/ RequestFailed) =>
                  /\ llm.mode = "fallback"
                  /\ llm.result = _generate_fallback(llm.prompt))
    /\ [][(llm.op = "generate" /\ llm.mode = "fallback"
            /\ llm'.op = "generate" /\ llm'.mode = "fallback"
            /\ llm'.prompt = llm.prompt) => llm'.result = llm.result]_vars

\* An available service whose request timed out.
C9_Witness ==
    /\ llm.op = "generate"
    /\ llm.ollama_available
    /\ llm.reply.error = "Timeout"
    /\ Contains(llm.result, "timeout configurations")
---------------------------------------------------------------------------
(* Resolution suggester: resolution_suggester.py *)

\* A dict is a record with the set of the keys it holds: {} has none.
ELLIPSIS == "..."

\* Mutant of round_half_even: the quotient is cut, not rounded.
round_down(num, den) == num \div den

\* round(): the nearest integer to num / den, ties to the even one.
round_half_even(num, den) ==
    LET q == num \div den
        r == num % den
    IN IF 2 * r < den THEN q
       ELSE IF 2 * r > den THEN q + 1
       ELSE IF q % 2 = 0 THEN q ELSE q + 1

\* str(similarity) of a percentage kept in tenths.
percent_text(tenths) == ToString(tenths \div 10) \o "." \o ToString(tenths % 10)

RECURSIVE replace_char(_, _, _)
replace_char(s, old, new) ==
    IF Len(s) <= 1 THEN (IF s = old THEN new ELSE s)
    ELSE replace_char(SubSeq(s, 1, Len(s) \div 2), old, new)
            \o replace_char(SubSeq(s, Len(s) \div 2 + 1, Len(s)), old, new)

resolved_keywords == <<"closed", "resolved", "done", "fixed", "verified", "complete">>

_is_resolved(defect) ==
    LET status == lower(defect.metadata.status)
        resolution == lower(defect.metadata.resolution)
        fix_desc == lower(defect.metadata.fix_description)
    IN \/ \E i \in DOMAIN resolved_keywords : Contains(status, resolved_keywords[i])
       \/ \E i \in DOMAIN resolved_keywords : Contains(resolution, resolved_keywords[i])
       \/ (fix_desc # "" /\ fix_desc # "nan" /\ Len(fix_desc) > 10)

\* Mutant of _get_confidence: every similarity maps to low.
_get_confidence_low(similarity) == "low"

_get_confidence(similarity) ==
    IF similarity >= 900 THEN "high"
    ELSE IF similarity >= 750 THEN "medium"
    ELSE "low"

_extract_resolutions(resolved_defects) ==
    LET from_fix(defect) ==
            LET fix_desc == defect.metadata.fix_description
            IN IF fix_desc # "" /\ lower(fix_desc) \notin {"nan", "none", ""}
               THEN <<[text |-> Trunc(strip(fix_desc), 500),
                       source |-> defect.metadata.issue_key,
                       similarity |-> defect.similarity,
                       confidence |-> _get_confidence(defect.similarity)]>>
               ELSE <<>>
        from_summary(defect) ==
            IF defect.metadata.summary # ""
            THEN <<[text |-> "Review resolution of similar issue: "
                                \o Trunc(defect.metadata.summary, 200),
                    source |-> defect.metadata.issue_key,
                    similarity |-> defect.similarity,
                    confidence |-> "low"]>>
            ELSE <<>>
        top5 == first_n(resolved_defects, 5)
        top3 == first_n(resolved_defects, 3)
        suggestions == Flatten([i \in DOMAIN top5 |-> from_fix(top5[i])])
    IN IF suggestions # <<>> THEN suggestions
       ELSE Flatten([i \in DOMAIN top3 |-> from_summary(top3[i])])

cause_keywords ==
    <<<<"timeout", "Timeout/Performance Issues">>,
      <<"validation", "Validation Logic Errors">>,
      <<"null", "Null Pointer/Empty Data">>,
      <<"database", "Database Connection/Query Issues">>,
      <<"api", "API Integration Issues">>,
      <<"configuration", "Configuration Problems">>,
      <<"authentication", "Authentication/Authorization Issues">>,
      <<"permission", "Permission/Authorization Issues">>,
      <<"memory", "Memory/Resource Issues">>,
      <<"network", "Network Connectivity Issues">>,
      <<"data", "Data Transformation/Format Issues">>,
      <<"error", "Error/Exception Handling">>,
      <<"integration", "Integration/Service Issues">> >>

\* Mutant of most_common: the count is the total of all the counters.
most_common_total(names) == <<names[1], Len(names)>>

\* Counter.most_common(1) of a sequence of names: the name that occurs
\* most often, the one counted first among equals.
most_common(names) ==
    LET count(n) == Cardinality({i \in DOMAIN names : names[i] = n})
        first(n) == CHOOSE i \in DOMAIN names :
                        names[i] = n /\ \A j \in 1..(i - 1) : names[j] # n
        top == CHOOSE n \in {names[i] : i \in DOMAIN names} :
                  \A m \in {names[i] : i \in DOMAIN names} :
                      \/ count(m) < count(n)
                      \/ (count(m) = count(n) /\ first(n) <= first(m))
    IN <<top, count(top)>>

\* The first sentence of a fix description.
first_sentence_of(fix_desc) ==
    LET s == strip(replace_char(fix_desc, "\n", " "))
        cut == IF Contains(s, ". ") THEN strip(split(s, ". ")[1]) \o "."
               ELSE IF Contains(s, "; ") THEN strip(split(s, "; ")[1])
               ELSE IF Contains(s, "\n") THEN strip(split(s, "\n")[1])
               ELSE s
    IN IF Len(cut) > 220 THEN SubSeq(cut, 1, 220) \o ELLIPSIS ELSE cut

RootCause(cause, percentage, count) ==
    [cause |-> cause, percentage |-> percentage, count |-> count]

\* Mutant of cause_from_text: only the top candidate is looked at.
cause_from_top(resolved_defects) ==
    LET metadata == Head(resolved_defects).metadata
        fix_desc == strip(metadata.fix_description)
    IN IF fix_desc # "" /\ Len(fix_desc) > 20
       THEN <<RootCause("From similar defect " \o metadata.issue_key \o ": "
                            \o first_sentence_of(fix_desc), 100, 1)>>
       ELSE <<RootCause("Investigation needed", 100, 0)>>

RECURSIVE cause_from_text(_)
cause_from_text(resolved_defects) ==
    IF resolved_defects = <<>> THEN <<RootCause("Investigation needed", 100, 0)>>
    ELSE LET metadata == Head(resolved_defects).metadata
             fix_desc == strip(metadata.fix_description)
             resolution == strip(metadata.resolution)
             key == metadata.issue_key
             attributed(text) ==
                 IF key # ""
                 THEN "From similar defect " \o key \o ": " \o text
                 ELSE text
         IN IF fix_desc # "" /\ lower(fix_desc) \notin {"nan", "none", ""}
                /\ Len(fix_desc) > 20
            THEN <<RootCause(attributed(first_sentence_of(fix_desc)), 100, 1)>>
            ELSE IF resolution # ""
                    /\ lower(resolution) \notin
                          {"nan", "none", "unresolved", "fixed", "done", ""}
                    /\ Len(resolution) > 15
            THEN <<RootCause(attributed(Trunc(resolution, 200)
                        \o (IF Len(resolution) > 200 THEN ELLIPSIS ELSE "")), 100, 1)>>
            ELSE cause_from_text(Tail(resolved_defects))

_analyze_root_causes(resolved_defects) ==
    LET content(d) == lower(d.metadata.summary \o " " \o d.metadata.fix_description
                                \o " " \o d.metadata.resolution)
        \* the cause names in the order the counter is incremented
        counted == Flatten([i \in DOMAIN resolved_defects |->
                      LET c == content(resolved_defects[i])
                      IN Flatten([k \in DOMAIN cause_keywords |->
                            IF Contains(c, cause_keywords[k][1])
                            THEN <<cause_keywords[k][2]>> ELSE <<>>])])
        top == most_common(counted)
        percentage == round_half_even(top[2] * 100, Len(resolved_defects))
    IN IF counted # <<>>
       THEN <<RootCause(top[1], Min(percentage, 100), top[2])>>
       ELSE cause_from_text(resolved_defects)

SuggestionKeys == {"suggestions", "root_causes", "ai_suggestions"}

\* {}
NoSuggestions ==
    [keys |-> {}, suggestions |-> <<>>, root_causes |-> <<>>, ai_suggestions |-> ""]

NoResolvedSuggestion ==
    [text |-> "No similar resolved defects found. Manual investigation required.",
     source |-> "system", similarity |-> 0, confidence |-> "low"]

resolved_of(similar_defects) == SelectSeq(similar_defects, _is_resolved)

\* suggest_resolutions(defect, similar_defects, skip_llm=True)
suggest_resolutions(defect, similar_defects) ==
    LET resolved == resolved_of(similar_defects)
    IN IF resolved = <<>>
       THEN [keys |-> SuggestionKeys, suggestions |-> <<NoResolvedSuggestion>>,
             root_causes |-> <<>>, ai_suggestions |-> ""]
       ELSE [keys |-> SuggestionKeys, suggestions |-> _extract_resolutions(resolved),
             root_causes |-> _analyze_root_causes(resolved), ai_suggestions |-> ""]

\* LLMService.generate_resolution_suggestions: the prompt it sends.
resolution_prompt(defect, similar_defects) ==
    LET top == first_n(similar_defects, 3)
        entry(i) ==
            "\n" \o ToString(i) \o ". " \o top[i].metadata.issue_key \o " ("
            \o percent_text(top[i].similarity) \o "% match)\n   Summary: "
            \o top[i].metadata.summary \o "\n   Resolution: "
            \o top[i].metadata.fix_description \o "\n"
    IN "Based on the following defect and similar resolved defects, suggest possible resolutions.\n\nCurrent Defect:\n- Summary: "
       \o defect.Summary \o "\n- Description: " \o Trunc(defect.Description, 500)
       \o "\n- System: N/A\n\nSimilar Resolved Defects:\n"
       \o join("", [i \in DOMAIN top |-> entry(i)])
       \o "\nSuggest 3 specific resolution steps based on these similar defects:"
---------------------------------------------------------------------------
(* Context summarizer: context_summarizer.py *)

MEMO == "[memo]"            \* the emoji that opens the fallback summary

UPPER_OF ==
    [c \in {CharAt(ASCII_LOWERCASE, i) : i \in 1..Len(ASCII_LOWERCASE)} |->
        CharAt(ASCII_UPPERCASE,
               CHOOSE i \in 1..Len(ASCII_LOWERCASE) : CharAt(ASCII_LOWERCASE, i) = c)]

IsLetter(c) == c \in DOMAIN UPPER_OF \/ c \in DOMAIN LOWER_OF

\* str.title(): a letter after a non-letter is made uppercase, the others lowercase.
RECURSIVE title_from(_, _)
title_from(s, after_letter) ==
    IF s = "" THEN ""
    ELSE LET c == CharAt(s, 1)
             out == IF after_letter THEN lower_char(c)
                    ELSE IF c \in DOMAIN UPPER_OF THEN UPPER_OF[c] ELSE c
         IN out \o title_from(SubSeq(s, 2, Len(s)), IsLetter(c))

title(s) == title_from(s, FALSE)

\* {}
NoSummary == NoOrch.summary_value

SummaryKeys ==
    {"overview", "likely_cause", "recommended_action", "historical_insights",
     "document_insights", "full_summary"}

\* The overview of a query defect, which has a Summary and a Description only.
_generate_overview(defect) ==
    "This is a Unknown priority defect in Unknown system, currently Unknown. "
        \o Trunc(defect.Summary, 200)

_analyze_likely_cause(defect, similar_defects, resolution_data) ==
    LET top3 == first_n(similar_defects, 3)
        content(d) == lower(d.metadata.summary \o " " \o d.metadata.fix_description)
        keywords_found ==
            Flatten([i \in DOMAIN top3 |->
                LET c == content(top3[i])
                IN collect(<<
                    <<Contains(c, "timeout"), "timeout issues">>,
                    <<Contains(c, "validation"), "validation errors">>,
                    <<Contains(c, "configuration") \/ Contains(c, "config"),
                      "configuration problems">>,
                    <<Contains(c, "data"), "data issues">> >>)])
    IN IF resolution_data.keys # {} /\ resolution_data.root_causes # <<>>
       THEN resolution_data.root_causes[1].cause \o " (based on "
            \o ToString(resolution_data.root_causes[1].percentage)
            \o "% of similar issues)"
       ELSE IF similar_defects = <<>>
       THEN "Unable to determine - no similar defects found for analysis"
       ELSE IF keywords_found # <<>>
       THEN "Most likely: " \o title(most_common(keywords_found)[1])
            \o " (based on pattern analysis)"
       ELSE "Further investigation needed to determine root cause"

_recommend_action(defect, similar_defects, related_docs) ==
    LET resolved ==
            SelectSeq(similar_defects,
                      LAMBDA d : \/ Contains(lower(d.metadata.status), "closed")
                                 \/ d.metadata.fix_description # "")
        actions ==
            (IF related_docs # <<>>
             THEN <<"Review " \o related_docs[1].metadata.filename
                        \o " for detailed flow information">>
             ELSE <<>>)
            \o (IF resolved # <<>>
                THEN <<"Review resolution of " \o resolved[1].metadata.issue_key
                           \o " (" \o percent_text(resolved[1].similarity)
                           \o "% similar)">>
                ELSE <<>>)
    IN IF actions = <<>>
       THEN "Investigate error logs and stack traces; Review recent changes in the affected module"
       ELSE join("; ", first_n(actions, 2))

\* Mutant of sum_similarity: only the first similarity is taken.
first_similarity(ds) == IF ds = <<>> THEN 0 ELSE Head(ds).similarity

RECURSIVE sum_similarity(_)
sum_similarity(ds) ==
    IF ds = <<>> THEN 0 ELSE Head(ds).similarity + sum_similarity(Tail(ds))

_calculate_historical_insights(similar_defects) ==
    LET resolved_count ==
            Cardinality({i \in DOMAIN similar_defects :
                LET status == lower(similar_defects[i].metadata.status)
                IN Contains(status, "closed") \/ Contains(status, "resolved")
                    \/ Contains(status, "done")})
        n == Len(similar_defects)
    IN IF similar_defects = <<>>
       THEN [total_similar |-> 0, resolved_count |-> 0, resolution_rate |-> 0,
             avg_similarity |-> 0]
       ELSE [total_similar |-> n,
             resolved_count |-> resolved_count,
             resolution_rate |-> round_half_even(resolved_count * 100, n),
             avg_similarity |-> round_half_even(sum_similarity(similar_defects), 10 * n)]

_extract_document_insights(related_docs) ==
    LET top3 == first_n(related_docs, 3)
    IN [i \in DOMAIN top3 |->
           [filename |-> top3[i].metadata.filename,
            section |-> top3[i].metadata.section,
            relevance |-> percent_text(top3[i].similarity) \o "%",
            snippet |-> Trunc(top3[i].content, 300)]]

_generate_fallback_summary(summary_data) ==
    join("\n",
         <<MEMO \o " " \o summary_data.overview>>
         \o (IF summary_data.likely_cause # ""
             THEN <<"\n" \o BULLET \o " Most likely cause: " \o summary_data.likely_cause>>
             ELSE <<>>)
         \o (IF summary_data.recommended_action # ""
             THEN <<BULLET \o " Recommended action: " \o summary_data.recommended_action>>
             ELSE <<>>)
         \o (IF summary_data.historical_insights.total_similar > 0
             THEN <<BULLET \o " Historical fix rate: "
                      \o ToString(summary_data.historical_insights.resolution_rate)
                      \o "% of similar defects were resolved">>
             ELSE <<>>))

\* LLMService.generate_context_summary: the prompt it sends.
context_prompt(defect, similar_defects, related_docs) ==
    "Provide a brief analysis summary for this defect:\n\nDefect: " \o defect.Summary
    \o "\nStatus: N/A\nPriority: N/A\n\nFound " \o ToString(Len(similar_defects))
    \o " similar past defects.\nFound " \o ToString(Len(related_docs))
    \o " related knowledge documents.\n\nProvide a 2-3 sentence summary including:\n1. What this defect is about\n2. Most likely cause based on similar defects\n3. Recommended next step\n"

\* generate_summary up to the generated text: every field but full_summary.
summary_fields(defect, similar_defects, related_docs, resolution_data) ==
    [keys |-> SummaryKeys,
     overview |-> _generate_overview(defect),
     likely_cause |-> _analyze_likely_cause(defect, similar_defects, resolution_data),
     recommended_action |-> _recommend_action(defect, similar_defects, related_docs),
     historical_insights |-> _calculate_historical_insights(similar_defects),
     document_insights |-> _extract_document_insights(related_docs),
     full_summary |-> ""]
\* Mutant of suggest_resolutions_calls: no early return when no candidate is
\* resolved.
suggest_resolutions_through(defect, similar_defects, skip_llm, ollama_available, reply) ==
    LET resolved == resolved_of(similar_defects)
    IN [result |-> [keys |-> SuggestionKeys,
                    suggestions |-> _extract_resolutions(resolved),
                    root_causes |-> _analyze_root_causes(resolved),
                    ai_suggestions |-> ""],
        calls |-> <<"_extract_resolutions", "_analyze_root_causes">>]

\* suggest_resolutions with its skip_llm parameter: the result and the
\* collaborators it invokes, in order.
suggest_resolutions_calls(defect, similar_defects, skip_llm, ollama_available, reply) ==
    LET resolved == resolved_of(similar_defects)
        result == suggest_resolutions(defect, similar_defects)
    IN IF resolved = <<>> THEN [result |-> result, calls |-> <<>>]
       ELSE IF ~skip_llm /\ ollama_available
       THEN LET g == generate(ollama_available, resolution_prompt(defect, resolved),
                              reply)
            IN [result |-> [result EXCEPT !.ai_suggestions =
                               IF g.outcome = "returned" THEN g.text ELSE @],
                calls |-> <<"_extract_resolutions", "_analyze_root_causes",
                            "generate_resolution_suggestions">>]
       ELSE [result |-> result,
             calls |-> <<"_extract_resolutions", "_analyze_root_causes">>]

---------------------------------------------------------------------------
(* Orchestrator: enhanced_search.py, EnhancedSearch.search *)

N_SIMILAR_DEFECTS == 5      \* n_similar_defects: int = 5
N_RELATED_DOCS == 3         \* n_related_docs: int = 3

query_defect(query) == [Summary |-> query, Description |-> query]

\* Mutant of future_done: result() does not wait for the task.
future_any(task) == TRUE

\* Future.result() and the executor's shutdown return once the task is done.
future_done(task) == task = "done"

\* Mutant of pre_inference: the suggester is not told to skip the adapter.
pre_inference_with_llm(defect, similar_defects, ollama_available, reply) ==
    suggest_resolutions_calls(defect, similar_defects, FALSE, ollama_available, reply)

\* suggest_resolutions(query_defect, similar[:5], skip_llm=True)
pre_inference(defect, similar_defects, ollama_available, reply) ==
    suggest_resolutions_calls(defect, similar_defects, TRUE, ollama_available, reply)

\* The adapter requests among the collaborators a step invoked, each tagged
\* with the step that made it.
adapter_requests(step, calls) ==
    IF \E i \in 1..Len(calls) : calls[i] = "generate_resolution_suggestions"
    THEN <<step>> ELSE <<>>

\* The steps of search before the fan-out: retrieval and pre-inference.
retrieve(s, query, min_similarity, ollama_available, reply) ==
    LET similar == search_by_text(s, query, N_SIMILAR_DEFECTS * 2, min_similarity)
        d == document_search(s, query, N_RELATED_DOCS, DOCUMENT_MIN_SIMILARITY)
        matching ==
            [acc |-> SelectSeq(similar, LAMBDA x : x.metadata.source = "ACC"),
             sit |-> SelectSeq(similar, LAMBDA x : x.metadata.source # "ACC")]
        start == [NoOrch EXCEPT !.query = query, !.min_similarity = min_similarity,
                                !.results.query = query]
    IN IF query = "" \/ IsBlank(query) THEN [start EXCEPT !.pc = "returned"]
       ELSE IF d.outcome # "returned"
       THEN [start EXCEPT !.pc = "raised", !.error = d.outcome,
                          !.results.matching_defects = matching]
       ELSE LET found ==
                    [start EXCEPT
                        !.similar = first_n(similar, 5),
                        !.results.matching_defects = matching,
                        !.results.related_documents = d.results,
                        !.adapter_calls =
                            IF similar # <<>>
                            THEN adapter_requests("search",
                                     pre_inference(query_defect(query),
                                                   first_n(similar, 5),
                                                   ollama_available, reply).calls)
                            ELSE <<>>,
                        !.results.resolution_suggestions =
                            IF similar # <<>>
                            THEN pre_inference(query_defect(query),
                                               first_n(similar, 5),
                                               ollama_available, reply).result
                            ELSE NoSuggestions]
            IN IF similar # <<>> \/ d.results # <<>>
               THEN [found EXCEPT !.pc = "wait_ai", !.launched = TRUE,
                                  !.ai = "pending", !.summary = "pending"]
               ELSE [found EXCEPT !.pc = "returned"]

FewGenerateReplies ==
    {Reply("none", 200, "object", "  Restart the gateway. \n"),
     Reply("none", 500, "object", Missing),
     Reply("none", 200, "invalid", Missing),
     Reply("Timeout", 0, "invalid", Missing)}

OrchQueries == {"", "guide", "login timeout", "unrelated words"}

InitOrch ==
    /\ \E tables \in QueryTables, tree \in QueryTrees :
          /\ vs = IndexedStore(tables, tree).vs
          /\ disk = IndexedStore(tables, tree).disk
    /\ indexed = (vs.defect_ids # <<>>)
    /\ call = NoCall
    /\ ret = NoRet
    /\ orch = NoOrch
    /\ \E tags \in TagsReplies :
          llm = [NoLLM EXCEPT !.ollama_available = _check_ollama(MODEL_NAME, tags),
                              !.op = "init"]
    /\ script = NoScript
    /\ threads = NoThreads

\* The coordinator: search from its call to the submission of the two tasks.
Search ==
    /\ orch.pc \in {"idle", "returned", "raised"}
    /\ \E query \in OrchQueries,
          min_similarity \in {DEFECT_MIN_SIMILARITY, PORTAL_MIN_SIMILARITY},
          reply \in FewGenerateReplies :
          orch' = retrieve(vs, query, min_similarity, llm.ollama_available, reply)
    /\ UNCHANGED <<vs, disk, indexed, call, ret, llm, script, threads>>

\* Mutant of fill_ai_suggestions: the task rewrites the whole mapping, not
\* only its ai_suggestions field.
fill_ai_suggestions_whole(result, text) ==
    [result EXCEPT !.ai_suggestions = text, !.root_causes = <<>>]

\* fill_ai_suggestions: result['ai_suggestions'] = <the generated text>
fill_ai_suggestions(result, text) == [result EXCEPT !.ai_suggestions = text]

\* Worker: fill_ai_suggestions up to its request to the adapter.
FillAiStart ==
    /\ orch.ai = "pending"
    /\ IF resolved_of(orch.similar) = <<>> \/ ~llm.ollama_available
       THEN orch' = [orch EXCEPT !.ai = "done", !.finished = Append(@, "ai")]
       ELSE orch' = [orch EXCEPT !.ai = "requesting",
                                 !.adapter_calls = Append(@, "ai")]
    /\ UNCHANGED <<vs, disk, indexed, call, ret, llm, script, threads>>

\* Worker: the adapter answers fill_ai_suggestions, which stores the text.
FillAiFinish ==
    /\ orch.ai = "requesting"
    /\ \E reply \in FewGenerateReplies :
          LET g == generate(llm.ollama_available,
                            resolution_prompt(query_defect(orch.query),
                                              resolved_of(orch.similar)),
                            reply)
          IN orch' = [orch EXCEPT
                        !.ai = "done",
                        !.finished = Append(@, "ai"),
                        !.failed = IF g.mode = "fallback" \/ g.outcome # "returned"
                                   THEN @ \cup {"ai"} ELSE @,
                        !.ai_generated = [outcome |-> g.outcome, text |-> g.text],
                        !.results.resolution_suggestions =
                            IF g.outcome = "returned"
                            THEN fill_ai_suggestions(@, g.text) ELSE @]
    /\ UNCHANGED <<vs, disk, indexed, call, ret, llm, script, threads>>

\* Worker: generate_summary up to its request to the adapter.
SummaryStart ==
    /\ orch.summary = "pending"
    /\ LET fields == summary_fields(query_defect(orch.query), orch.similar,
                                    orch.results.related_documents,
                                    orch.results.resolution_suggestions)
       IN IF llm.ollama_available
          THEN orch' = [orch EXCEPT !.summary = "requesting",
                                    !.adapter_calls = Append(@, "summary"),
                                    !.summary_value = fields]
          ELSE orch' = [orch EXCEPT
                          !.summary = "done",
                          !.finished = Append(@, "summary"),
                          !.summary_value =
                              [fields EXCEPT !.full_summary =
                                  _generate_fallback_summary(fields)]]
    /\ UNCHANGED <<vs, disk, indexed, call, ret, llm, script, threads>>

\* Worker: the adapter answers generate_summary, which returns the summary.
SummaryFinish ==
    /\ orch.summary = "requesting"
    /\ \E reply \in FewGenerateReplies :
          LET g == generate(llm.ollama_available,
                            context_prompt(query_defect(orch.query), orch.similar,
                                           orch.results.related_documents),
                            reply)
          IN orch' = [orch EXCEPT
                        !.summary = "done",
                        !.summary_generated = [outcome |-> g.outcome, text |-> g.text],
                        !.finished = Append(@, "summary"),
                        !.failed = IF g.mode = "fallback" \/ g.outcome # "returned"
                                   THEN @ \cup {"summary"} ELSE @,
                        !.summary_value.full_summary =
                            IF g.outcome = "returned" THEN g.text
                            ELSE _generate_fallback_summary(orch.summary_value)]
    /\ UNCHANGED <<vs, disk, indexed, call, ret, llm, script, threads>>

\* Coordinator: future_ai.result()
JoinAi ==
    /\ orch.pc = "wait_ai"
    /\ future_done(orch.ai)
    /\ orch' = [orch EXCEPT !.pc = "wait_summary"]
    /\ UNCHANGED <<vs, disk, indexed, call, ret, llm, script, threads>>

\* Coordinator: results['context_summary'] = future_summary.result()
JoinSummary ==
    /\ orch.pc = "wait_summary"
    /\ future_done(orch.summary)
    /\ orch' = [orch EXCEPT !.pc = "shutdown",
                            !.results.context_summary = orch.summary_value]
    /\ UNCHANGED <<vs, disk, indexed, call, ret, llm, script, threads>>

\* Coordinator: the with block ends (shutdown(wait=True)), search returns.
ExitPool ==
    /\ orch.pc = "shutdown"
    /\ future_done(orch.ai)
    /\ future_done(orch.summary)
    /\ orch' = [orch EXCEPT !.pc = "returned"]
    /\ UNCHANGED <<vs, disk, indexed, call, ret, llm, script, threads>>

NextOrch ==
    \/ Search
    \/ FillAiStart
    \/ FillAiFinish
    \/ SummaryStart
    \/ SummaryFinish
    \/ JoinAi
    \/ JoinSummary
    \/ ExitPool

SpecOrch == InitOrch /\ [][NextOrch]_vars

---------------------------------------------------------------------------
(* Properties of the orchestrator (under SpecOrch) *)

\* No defect and no document chunk reaches the threshold for the query.
NothingFound ==
    /\ search_by_text(vs, orch.query, N_SIMILAR_DEFECTS * 2, orch.min_similarity) = <<>>
    /\ search_documents(vs, generate_embedding(orch.query), N_RELATED_DOCS,
                        DOCUMENT_MIN_SIMILARITY) = <<>>

\* C1: a search with a non-empty query that finds no defect and no document
\* chunk at the threshold returns normally, with empty matching_defects
\* buckets and empty related_documents.
C1_NothingFoundReturnsEmptyBundle ==
    (orch.pc \in {"returned", "raised"} /\ orch.query # ""
        /\ ~IsBlank(orch.query) /\ NothingFound) =>
        /\ orch.pc = "returned"
        /\ orch.results.matching_defects = [acc |-> <<>>, sit |-> <<>>]
        /\ orch.results.related_documents = <<>>

\* C8: search returns only when both fan-out tasks are done, whatever the
\* order of the workers and the outcome of their generation calls, and the
\* returned bundle holds the summary the summary task produced.
C8_ReturnsAfterBothTasks ==
    (orch.pc = "returned" /\ orch.launched) =>
        /\ orch.ai = "done"
        /\ orch.summary = "done"
        /\ orch.results.context_summary = orch.summary_value
        /\ orch.results.context_summary.keys = SummaryKeys

\* A returned search whose summary task finished before the suggestions
\* task, both after a failed generation call.
C8_Witness ==
    /\ orch.pc = "returned"
    /\ orch.launched
    /\ orch.finished = <<"summary", "ai">>
    /\ orch.failed = {"ai", "summary"}

---------------------------------------------------------------------------
(* Chunking: DocumentSearch._split_text on documents of every length *)

MaxWords == 1400    \* most words of a chunked document

SplitText ==
    \E n \in 0..MaxWords :
        /\ ret' = [NoRet EXCEPT !.op = "_split_text", !.query = "doc", !.nwords = n,
                                !.results = _split_text("doc", n, CHUNK_SIZE,
                                                        CHUNK_OVERLAP)]
        /\ UNCHANGED <<vs, disk, indexed, call, orch, llm, script, threads>>

NextChunk == SplitText

SpecChunk == Init /\ [][NextChunk]_vars

\* The least integer that is at least a / b.
Ceil(a, b) == (a + b - 1) \div b

\* The i-th chunk (from 0) is the window of words that starts at 450 * i.
WindowsEvery450 ==
    \A i \in DOMAIN ret.results :
        ret.results[i] =
            window(ret.query, (CHUNK_SIZE - CHUNK_OVERLAP) * (i - 1),
                   Min((CHUNK_SIZE - CHUNK_OVERLAP) * (i - 1) + CHUNK_SIZE, ret.nwords))

\* C11 as stated: N words give one chunk when N <= 500 and
\* ceil((N - 50) / 450) chunks when N > 500, chunk i being the window that
\* starts at 450 * i.
C11_ChunkCountFormula ==
    ret.op = "_split_text" =>
        IF ret.nwords <= CHUNK_SIZE THEN Len(ret.results) = 1
        ELSE /\ Len(ret.results) =
                    Ceil(ret.nwords - CHUNK_OVERLAP, CHUNK_SIZE - CHUNK_OVERLAP)
             /\ WindowsEvery450

\* C11 amended: no chunk for N = 0, the whole text as one chunk for
\* 1 <= N <= 500, and ceil(N / 450) chunks for N > 500, chunk i being the
\* window that starts at 450 * i; the loop runs while start < N, so a last
\* window made of overlap words only is still emitted.
C11_ChunkCountWhileWordsRemain ==
    ret.op = "_split_text" =>
        IF ret.nwords = 0 THEN ret.results = <<>>
        ELSE IF ret.nwords <= CHUNK_SIZE THEN ret.results = <<ret.query>>
        ELSE /\ Len(ret.results) = Ceil(ret.nwords, CHUNK_SIZE - CHUNK_OVERLAP)
             /\ WindowsEvery450

\* A document of 901 words: three chunks, the last one a single word.
C11_Witness ==
    /\ ret.op = "_split_text"
    /\ ret.nwords = 2 * (CHUNK_SIZE - CHUNK_OVERLAP) + 1
    /\ Len(ret.results) = 3
    /\ ret.results[3] = window(ret.query, 900, 901)

---------------------------------------------------------------------------
(* ResolutionSuggester.suggest_resolutions on lists of candidates *)

\* A search result for a stored defect row, as search_similar_defects builds it.
Candidate(key, similarity, status, resolution, fix_description, summary) ==
    LET row == [BaseRow EXCEPT !.Issue_key = key, !.Summary = summary,
                               !.Status = status, !.Resolution = resolution,
                               !.Fix_Description = fix_description]
    IN [issue_key |-> key, similarity |-> similarity,
        metadata |-> defect_meta(row, 1), document |-> defect_doc_text(row)]

CandTimeoutFix ==
    Candidate("K1", 950, "Closed", "Fixed", "raised the gateway timeout", "login timeout")

CandTimeoutToo ==
    Candidate("K2", 899, "Resolved", "Done", "timeout raised to 60 seconds",
              "checkout timeout")

CandValidation ==
    Candidate("K3", 800, "Closed", "Fixed", "", "form validation error on dates")

CandPlainFix ==
    Candidate("K4", 750, "Closed", "", "Cleared the stale cache. Then redeployed",
              "page is blank")

CandResolutionOnly ==
    Candidate("K5", 910, "Closed", "Rolled back the release", "", "menu is missing")

CandOpen ==
    Candidate("K6", 990, "Open", "", "", "printer jams")

CandBare ==
    Candidate("K7", 700, "Done", "Done", "", "")

CandShortFix ==
    Candidate("K8", 900, "Open", "", "restart the node", "node hangs")

CandNoKey ==
    Candidate("", 749, "Closed", "",
              "Restarted the gateway service and cleared stale cache.",
              "service is down")

Candidates ==
    {CandTimeoutFix, CandTimeoutToo, CandValidation, CandPlainFix,
     CandResolutionOnly, CandOpen, CandBare, CandShortFix, CandNoKey}

MaxCands == 2    \* longest candidate list drawn from Candidates

\* Longer lists: three candidates, more than five resolved candidates, and
\* eight of which one matches a keyword.
LongCandidateLists ==
    {<<CandTimeoutFix, CandValidation, CandTimeoutToo>>,
     <<CandTimeoutFix, CandTimeoutToo, CandValidation, CandOpen>>,
     <<CandBare, CandResolutionOnly, CandPlainFix>>,
     <<CandOpen, CandBare, CandShortFix>>,
     <<CandOpen, CandTimeoutFix, CandTimeoutToo, CandResolutionOnly, CandShortFix,
       CandValidation, CandPlainFix, CandBare>>,
     <<CandTimeoutFix, CandTimeoutToo, CandShortFix, CandPlainFix, CandTimeoutFix,
       CandTimeoutToo, CandPlainFix>>,
     <<CandResolutionOnly, CandValidation, CandBare, CandResolutionOnly,
       CandValidation, CandBare>>,
     <<CandValidation, CandPlainFix, CandResolutionOnly, CandBare, CandShortFix,
       CandPlainFix, CandResolutionOnly, CandBare>>}

CandidateLists == SeqsUpTo(Candidates, MaxCands) \cup LongCandidateLists

FewCandidateLists ==
    {<<>>, <<CandOpen>>, <<CandTimeoutFix>>, <<CandOpen, CandResolutionOnly>>,
     <<CandPlainFix, CandBare>>}

Suggested(similar_defects, skip_llm, outcome) ==
    [NoRet EXCEPT !.op = "suggest_resolutions",
                  !.skip_llm = skip_llm,
                  !.candidates = similar_defects,
                  !.suggestions = outcome.result.suggestions,
                  !.root_causes = outcome.result.root_causes,
                  !.ai_suggestions = outcome.result.ai_suggestions,
                  !.resolved = resolved_of(similar_defects),
                  !.calls = outcome.calls]

\* suggest_resolutions(defect, similar_defects, skip_llm=True), as
\* EnhancedSearch.search calls it.
SuggestResolutions ==
    \E similar_defects \in CandidateLists :
        /\ ret = NoRet
        /\ ret' = Suggested(similar_defects, TRUE,
                            suggest_resolutions_calls(query_defect("login timeout"),
                                                      similar_defects, TRUE,
                                                      llm.ollama_available, NoReply))
        /\ UNCHANGED <<vs, disk, indexed, call, orch, llm, script, threads>>

\* suggest_resolutions(defect, similar_defects) with the adapter's answer.
SuggestResolutionsWithLLM ==
    \E similar_defects \in FewCandidateLists,
       reply \in (IF llm.ollama_available THEN FewGenerateReplies ELSE {NoReply}) :
        /\ ret = NoRet
        /\ ret' = Suggested(similar_defects, FALSE,
                            suggest_resolutions_calls(query_defect("login timeout"),
                                                      similar_defects, FALSE,
                                                      llm.ollama_available, reply))
        /\ UNCHANGED <<vs, disk, indexed, call, orch, llm, script, threads>>

\* ContextSummarizer._calculate_historical_insights on a list of candidates.
HistoricalInsights ==
    \E similar_defects \in CandidateLists :
        /\ ret = NoRet
        /\ ret' = [NoRet EXCEPT
                     !.op = "_calculate_historical_insights",
                     !.candidates = similar_defects,
                     !.insights = _calculate_historical_insights(similar_defects)]
        /\ UNCHANGED <<vs, disk, indexed, call, orch, llm, script, threads>>

NextSuggest ==
    \/ NewLLMService
    \/ SuggestResolutions
    \/ SuggestResolutionsWithLLM
    \/ HistoricalInsights

SpecSuggest == Init /\ [][NextSuggest]_vars

\* The resolved candidates of the last call, in list order.
Resolved == resolved_of(ret.candidates)

SuggestReturned == ret.op = "suggest_resolutions"

\* C12: when some candidate is resolved, suggest_resolutions returns exactly
\* one root cause; its percentage is an integer in 0..100 and its support
\* count is at most the number of resolved candidates.
C12_OneRootCauseWithinBounds ==
    (SuggestReturned /\ Resolved # <<>>) =>
        /\ Len(ret.root_causes) = 1
        /\ ret.root_causes[1].percentage \in 0..100
        /\ ret.root_causes[1].count \in 0..Len(Resolved)

\* Two resolved candidates, one of them matching two keywords, both
\* supporting the cause.
C12_Witness ==
    /\ SuggestReturned
    /\ ret.candidates = <<CandValidation, CandValidation>>
    /\ Len(Resolved) = 2
    /\ ret.root_causes = <<RootCause("Validation Logic Errors", 100, 2)>>

\* The combined summary + fix + resolution text of a candidate.
CombinedText(d) ==
    d.metadata.summary \o " " \o d.metadata.fix_description \o " "
        \o d.metadata.resolution

\* The resolved candidates whose combined text holds the k-th keyword.
Matching(k) ==
    {i \in DOMAIN Resolved : Contains(lower(CombinedText(Resolved[i])),
                                      cause_keywords[k][1])}

KeywordOccurs == \E k \in DOMAIN cause_keywords : Matching(k) # {}

\* p is num / den rounded: the nearest integer, the even one of two nearest.
IsRounded(p, num, den) ==
    LET twice == IF 2 * p * den >= 2 * num THEN 2 * p * den - 2 * num
                 ELSE 2 * num - 2 * p * den
    IN twice < den \/ (twice = den /\ p % 2 = 0)

\* C13: when a taxonomy keyword occurs in the text of the resolved
\* candidates, the root cause is the label matched by the largest number of
\* resolved candidates, its support count is that number and its percentage
\* is round(100 * count / number of resolved candidates).
C13_MostMatchedLabel ==
    (SuggestReturned /\ KeywordOccurs) =>
        /\ Len(ret.root_causes) = 1
        /\ \E k \in DOMAIN cause_keywords :
              /\ ret.root_causes[1].cause = cause_keywords[k][2]
              /\ ret.root_causes[1].count = Cardinality(Matching(k))
              /\ \A j \in DOMAIN cause_keywords :
                    Cardinality(Matching(j)) <= Cardinality(Matching(k))
        /\ IsRounded(ret.root_causes[1].percentage,
                     100 * ret.root_causes[1].count, Len(Resolved))

\* Three resolved candidates, timeout in two and validation in one.
C13_Witness ==
    /\ SuggestReturned
    /\ ret.candidates = <<CandTimeoutFix, CandValidation, CandTimeoutToo>>
    /\ ret.root_causes = <<RootCause("Timeout/Performance Issues", 67, 2)>>

\* Fix text the root-cause analysis accepts: not blank, not a stock value,
\* longer than 20 characters.
UsableFix(d) ==
    LET fix_desc == strip(d.metadata.fix_description)
    IN fix_desc # "" /\ lower(fix_desc) \notin {"nan", "none"} /\ Len(fix_desc) > 20

\* A resolution field the root-cause analysis accepts: not blank, not a
\* stock value, longer than 15 characters.
UsableResolution(d) ==
    LET resolution == strip(d.metadata.resolution)
    IN /\ resolution # ""
       /\ lower(resolution) \notin {"nan", "none", "unresolved", "fixed", "done"}
       /\ Len(resolution) > 15

\* A cause text attributed to the candidate it is taken from.
Attributed(d, text) ==
    IF d.metadata.issue_key # ""
    THEN "From similar defect " \o d.metadata.issue_key \o ": " \o text
    ELSE text

CauseFromFix(d) ==
    RootCause(Attributed(d, first_sentence_of(strip(d.metadata.fix_description))),
              100, 1)

CauseFromResolution(d) ==
    LET resolution == strip(d.metadata.resolution)
    IN RootCause(Attributed(d, Trunc(resolution, 200)
                    \o (IF Len(resolution) > 200 THEN ELLIPSIS ELSE "")), 100, 1)

\* The first position of a sequence that satisfies a condition.
FirstWhere(seq, Cond(_)) ==
    CHOOSE i \in DOMAIN seq : Cond(seq[i]) /\ \A j \in 1..(i - 1) : ~Cond(seq[j])

NoKeywordCase == SuggestReturned /\ Resolved # <<>> /\ ~KeywordOccurs

\* C14 as stated: when no keyword matches, fix text has strict priority: if
\* any resolved candidate has non-trivial fix text, the cause is the first
\* sentence of the fix text of the first such candidate (100, 1); a
\* resolution field is used only when no fix text is usable; the sentinel
\* (100, 0) is returned only when no candidate has usable fix or resolution
\* text.
C14_FixTextBeforeAnyResolution ==
    NoKeywordCase =>
        IF \E i \in DOMAIN Resolved : UsableFix(Resolved[i])
        THEN ret.root_causes = <<CauseFromFix(Resolved[FirstWhere(Resolved, UsableFix)])>>
        ELSE IF \E i \in DOMAIN Resolved : UsableResolution(Resolved[i])
        THEN ret.root_causes =
                <<CauseFromResolution(Resolved[FirstWhere(Resolved, UsableResolution)])>>
        ELSE ret.root_causes = <<RootCause("Investigation needed", 100, 0)>>

UsableText(d) == UsableFix(d) \/ UsableResolution(d)

\* C14 amended: when no keyword matches, the cause is taken from the first
\* resolved candidate that has usable fix text or a usable resolution field:
\* the first sentence of its fix text if that is usable, else its resolution
\* field, attributed to its id when it has one, with percentage 100 and
\* count 1; the sentinel (100, 0) is returned only when no candidate has
\* usable fix or resolution text.
C14_FirstCandidateWithUsableText ==
    NoKeywordCase =>
        IF \E i \in DOMAIN Resolved : UsableText(Resolved[i])
        THEN LET d == Resolved[FirstWhere(Resolved, UsableText)]
             IN ret.root_causes =
                    <<IF UsableFix(d) THEN CauseFromFix(d) ELSE CauseFromResolution(d)>>
        ELSE ret.root_causes = <<RootCause("Investigation needed", 100, 0)>>

\* A candidate with a usable resolution field ahead of one with usable fix
\* text: the cause is the resolution of the former.
C14_Witness ==
    /\ SuggestReturned
    /\ ret.candidates = <<CandBare, CandResolutionOnly, CandPlainFix>>
    /\ ret.root_causes =
          <<RootCause("From similar defect K5: Rolled back the release", 100, 1)>>

\* C15: when no candidate is resolved (the empty list included),
\* suggest_resolutions returns exactly one suggestion, the sentinel with
\* confidence low, no root cause and no generated text, and invokes neither
\* the root-cause analysis nor the generative adapter.
C15_NoResolvedGivesSentinelOnly ==
    (SuggestReturned /\ Resolved = <<>>) =>
        /\ Len(ret.suggestions) = 1
        /\ ret.suggestions[1].text =
              "No similar resolved defects found. Manual investigation required."
        /\ ret.suggestions[1].source = "system"
        /\ ret.suggestions[1].confidence = "low"
        /\ ret.root_causes = <<>>
        /\ ret.ai_suggestions = ""
        /\ \A i \in DOMAIN ret.calls :
              ret.calls[i] \notin {"_analyze_root_causes",
                                   "generate_resolution_suggestions"}

\* An unresolved candidate only, the adapter available and not skipped.
C15_Witness ==
    /\ SuggestReturned
    /\ ret.candidates = <<CandOpen>>
    /\ ~ret.skip_llm
    /\ llm.ollama_available
    /\ ret.suggestions = <<NoResolvedSuggestion>>

\* Fix text that _extract_resolutions turns into a suggestion.
HasFixText(d) ==
    d.metadata.fix_description # ""
        /\ lower(d.metadata.fix_description) \notin {"nan", "none"}

\* The suggestion is built from the candidate's fix text.
FromFix(suggestion, d) ==
    /\ suggestion.source = d.metadata.issue_key
    /\ suggestion.similarity = d.similarity
    /\ suggestion.text = Trunc(strip(d.metadata.fix_description), 500)

\* The suggestion is a paraphrase of the candidate's summary.
FromSummary(suggestion, d) ==
    /\ suggestion.source = d.metadata.issue_key
    /\ suggestion.similarity = d.similarity
    /\ suggestion.text = "Review resolution of similar issue: "
                            \o Trunc(d.metadata.summary, 200)

\* The threshold mapping of a similarity in tenths of a percent.
ThresholdConfidence(similarity) ==
    IF similarity >= 900 THEN "high"
    ELSE IF similarity >= 750 THEN "medium"
    ELSE "low"

\* C16 as stated: every suggestion emitted for a resolved candidate carries
\* the threshold confidence of that candidate's similarity (high from 90,
\* medium from 75 to below 90, low otherwise), whether it is built from fix
\* text or from the summary paraphrase.
C16_ConfidenceByThreshold ==
    (SuggestReturned /\ Resolved # <<>>) =>
        \A i \in DOMAIN ret.suggestions :
            \E j \in DOMAIN Resolved :
                /\ FromFix(ret.suggestions[i], Resolved[j])
                      \/ FromSummary(ret.suggestions[i], Resolved[j])
                /\ ret.suggestions[i].confidence =
                      ThresholdConfidence(Resolved[j].similarity)

\* C16 amended: a suggestion built from fix text carries the threshold
\* confidence of its candidate's similarity; a suggestion built from the
\* summary paraphrase carries confidence low whatever the similarity.
C16_ConfidenceByThresholdForFixText ==
    (SuggestReturned /\ Resolved # <<>>) =>
        \A i \in DOMAIN ret.suggestions :
            \E j \in DOMAIN Resolved :
                \/ /\ HasFixText(Resolved[j])
                   /\ FromFix(ret.suggestions[i], Resolved[j])
                   /\ ret.suggestions[i].confidence =
                         ThresholdConfidence(Resolved[j].similarity)
                \/ /\ FromSummary(ret.suggestions[i], Resolved[j])
                   /\ ret.suggestions[i].confidence = "low"

\* A summary paraphrase for a candidate of similarity 91.0 carries low.
C16_Witness ==
    /\ SuggestReturned
    /\ ret.candidates = <<CandResolutionOnly>>
    /\ Len(ret.suggestions) = 1
    /\ FromSummary(ret.suggestions[1], CandResolutionOnly)
    /\ ret.suggestions[1].similarity = 910
    /\ ret.suggestions[1].confidence = "low"

\* resolved[:n]
Leading(seq, n) == SubSeq(seq, 1, IF Len(seq) < n THEN Len(seq) ELSE n)

\* C17 as stated: with r >= 1 resolved candidates there are exactly
\* min(5, r) suggestions, one for each of the 5 most similar resolved
\* candidates in descending similarity order, from the candidate's fix text
\* or, when it has none, from a paraphrase of its summary.
C17_OneSuggestionPerTopFive ==
    (SuggestReturned /\ Resolved # <<>>) =>
        /\ Len(ret.suggestions) = Len(Leading(Resolved, 5))
        /\ \A i, k \in DOMAIN ret.suggestions :
              i < k => ret.suggestions[i].similarity >= ret.suggestions[k].similarity
        /\ \A i \in DOMAIN ret.suggestions :
              \E j \in DOMAIN Resolved :
                  IF HasFixText(Resolved[j])
                  THEN FromFix(ret.suggestions[i], Resolved[j])
                  ELSE FromSummary(ret.suggestions[i], Resolved[j])
        /\ \A j \in DOMAIN Resolved :
              (\A i \in DOMAIN ret.suggestions :
                    ~FromFix(ret.suggestions[i], Resolved[j])
                        /\ ~FromSummary(ret.suggestions[i], Resolved[j]))
                 => \A i \in DOMAIN ret.suggestions :
                        ret.suggestions[i].similarity >= Resolved[j].similarity

HasSummary(d) == d.metadata.summary # ""

\* C17 amended: with r >= 1 resolved candidates the suggestions are, in list
\* order, one for each of the first 5 resolved candidates that has fix text;
\* when none of those 5 has fix text, they are one summary paraphrase for
\* each of the first 3 resolved candidates that has a summary. There are at
\* most min(5, r) suggestions, possibly none.
C17_FixTextOfFirstFiveElseSummaryOfFirstThree ==
    (SuggestReturned /\ Resolved # <<>>) =>
        LET with_fix == SelectSeq(Leading(Resolved, 5), HasFixText)
            with_summary == SelectSeq(Leading(Resolved, 3), HasSummary)
            emitted == IF with_fix # <<>> THEN with_fix ELSE with_summary
        IN /\ Len(ret.suggestions) = Len(emitted)
           /\ Len(ret.suggestions) <= Len(Leading(Resolved, 5))
           /\ \A i \in DOMAIN ret.suggestions :
                 IF with_fix # <<>>
                 THEN FromFix(ret.suggestions[i], emitted[i])
                 ELSE FromSummary(ret.suggestions[i], emitted[i])

\* Seven resolved candidates, three of the first five with fix text: three
\* suggestions, none for the sixth although it has fix text.
C17_Witness ==
    /\ SuggestReturned
    /\ Len(Resolved) = 7
    /\ HasFixText(Resolved[6])
    /\ Len(ret.suggestions) = 3
    /\ ret.suggestions[1].source = "K1"
    /\ ret.suggestions[2].source = "K2"
    /\ ret.suggestions[3].source = "K8"

---------------------------------------------------------------------------
(* Blank queries (under SpecQuery; EnhancedSearch.search under SpecOrch) *)

BlankText(text) == text = "" \/ IsBlank(text)

\* A query record whose text fields are all blank.
BlankRecord(defect) ==
    /\ BlankText(Get(defect.Summary, ""))
    /\ BlankText(Get(defect.Description, ""))
    /\ BlankText(Get(defect.Fix_Description, ""))
    /\ BlankText(Get(defect.OSF_System, ""))
    /\ BlankText(Get(defect.Comment, ""))

BlankSearch ==
    \/ ret.op \in {"search_by_text", "document_search"} /\ BlankText(ret.query)
    \/ ret.op \in {"find_similar", "search_by_defect"} /\ BlankRecord(ret.defect)

\* C18: for an empty or whitespace-only query, or a query record whose text
\* fields are all blank, search_by_text, find_similar, DocumentSearch.search,
\* search_by_defect and EnhancedSearch.search return an empty result set
\* without raising, whatever the corpus and the min_similarity.
C18_BlankQueryFindsNothing ==
    /\ BlankSearch => (ret.outcome = "returned" /\ ret.results = <<>>)
    /\ (orch.pc \in {"returned", "raised"} /\ BlankText(orch.query)) =>
          /\ orch.pc = "returned"
          /\ orch.results.similar_defects = <<>>
          /\ orch.results.related_documents = <<>>

---------------------------------------------------------------------------
(* Construction of a VectorStore on a directory of any content *)

\* The snapshots the portal has written after indexing its tables and folder.
WrittenSnapshots ==
    IndexedStore(<<<<RowLogin, RowNoKey>>, <<RowSameKey>>>>,
                 TreeOf({FileGuide, FileNotes})).disk

\* A file that is not JSON, and a file whose top level is a JSON list.
Unparsable == [NoFile EXCEPT !.exists = TRUE, !.json = "invalid"]
TopLevelList == [NoFile EXCEPT !.exists = TRUE, !.json = "list"]

\* The snapshot without some of its keys.
Without(file, dropped) ==
    [f \in DOMAIN file |->
        IF f = "keys" THEN file.keys \ dropped
        ELSE IF f \in dropped THEN <<>>
        ELSE file[f]]

\* The snapshot with an embeddings value that is not a list (null, a number).
BadEmbeddings(file) ==
    [file EXCEPT !.embeddings_iterable = FALSE, !.embeddings = <<>>]

SnapshotFiles(file) ==
    {NoFile, Unparsable, TopLevelList}
        \cup {Without(file, dropped) : dropped \in SUBSET SNAPSHOT_KEYS}
        \cup {BadEmbeddings(Without(file, dropped)) :
                dropped \in SUBSET (SNAPSHOT_KEYS \ {"embeddings"})}

InitLoad ==
    /\ \E defects_json \in SnapshotFiles(WrittenSnapshots.defects_json),
          documents_json \in SnapshotFiles(WrittenSnapshots.documents_json) :
          disk = [defects_json |-> defects_json, documents_json |-> documents_json]
    /\ vs = EmptyVS
    /\ indexed = FALSE
    /\ call = NoCall
    /\ ret = NoRet
    /\ orch = NoOrch
    /\ llm = NoLLM
    /\ script = NoScript
    /\ threads = NoThreads

NextLoad == Construct

SpecLoad == InitLoad /\ [][NextLoad]_vars

\* The file is absent, not JSON, not a JSON object, lacks a key or has a
\* bad embeddings value.
Malformed(file) ==
    \/ ~file.exists
    \/ file.json # "object"
    \/ file.keys # SNAPSHOT_KEYS
    \/ ~file.embeddings_iterable

\* C19: when a snapshot file is missing, unparsable, or parses but is
\* incomplete or malformed, construction does not raise and that corpus is
\* empty afterwards: count 0 and no ids, vectors, metadata or texts.
C19_MalformedSnapshotLoadsEmpty ==
    call.op = "construct" =>
        /\ call.outcome = "returned"
        /\ Malformed(disk.defects_json) =>
              /\ get_collection_stats(vs).defect_count = 0
              /\ DefectCorpus(vs) = DefectCorpus(EmptyVS)
        /\ Malformed(disk.documents_json) =>
              /\ get_collection_stats(vs).document_count = 0
              /\ DocumentCorpus(vs) = DocumentCorpus(EmptyVS)

---------------------------------------------------------------------------
(* Order of equal similarities (under SpecQuery) *)

VectorSearchReturned == ret.op \in {"search_similar_defects", "search_documents"}

\* C20 as stated: in the result list of a search, two results that report
\* the same similarity value appear in the order in which their records were
\* inserted into the corpus.
C20_EqualReportedInInsertionOrder ==
    VectorSearchReturned =>
        \A i, j \in DOMAIN ret.results :
            (i < j /\ ret.results[i].similarity = ret.results[j].similarity)
                => ret.ranked[i].idx < ret.ranked[j].idx

\* C20 amended: two results whose records have the same cosine similarity to
\* the query, before it is rounded for the report, appear in the order in
\* which their records were inserted into the corpus.
C20_EqualCosineInInsertionOrder ==
    VectorSearchReturned =>
        \A i, j \in DOMAIN ret.results :
            (i < j /\ _cosine_similarity(np_array(ret.query_embedding),
                                         SearchedEmbeddings[ret.ranked[i].idx])
                      = _cosine_similarity(np_array(ret.query_embedding),
                                           SearchedEmbeddings[ret.ranked[j].idx]))
                => ret.ranked[i].idx < ret.ranked[j].idx

\* Two chunks of equal cosine similarity, returned in insertion order ahead
\* of a chunk of lower similarity.
C20_Witness ==
    /\ ret.op = "search_documents"
    /\ Len(ret.results) = 3
    /\ ret.ranked[1].sim = ret.ranked[2].sim
    /\ ret.ranked[1].idx < ret.ranked[2].idx
    /\ ret.ranked[2].sim > ret.ranked[3].sim

---------------------------------------------------------------------------
(* Historical insights (under SpecSuggest) *)

\* The sum of the similarities of the candidates, in tenths of a percent.
TotalSimilarity ==
    LET total[i \in 0..Len(ret.candidates)] ==
            IF i = 0 THEN 0 ELSE total[i - 1] + ret.candidates[i].similarity
    IN total[Len(ret.candidates)]

\* C21: _calculate_historical_insights returns total_similar = the number of
\* similar records, 0 <= resolved_count <= total_similar, resolution_rate =
\* round(100 * resolved_count / total_similar) in 0..100 and avg_similarity =
\* round(mean of the similarities); all four are 0 for the empty list.
C21_HistoricalInsights ==
    ret.op = "_calculate_historical_insights" =>
        LET n == Len(ret.candidates)
            v == ret.insights
        IN IF n = 0
           THEN v = [total_similar |-> 0, resolved_count |-> 0,
                     resolution_rate |-> 0, avg_similarity |-> 0]
           ELSE /\ v.total_similar = n
                /\ v.resolved_count \in 0..n
                /\ v.resolution_rate \in 0..100
                /\ IsRounded(v.resolution_rate, 100 * v.resolved_count, n)
                /\ IsRounded(v.avg_similarity, TotalSimilarity, 10 * n)

\* Four similar records, three of them resolved: rate 75, mean 90.975.
C21_Witness ==
    /\ ret.op = "_calculate_historical_insights"
    /\ ret.insights = [total_similar |-> 4, resolved_count |-> 3,
                       resolution_rate |-> 75, avg_similarity |-> 91]

---------------------------------------------------------------------------
(* One resolved predicate (under SpecSuggest and SpecQuery) *)

ResolvedKeywords == {"closed", "resolved", "done", "fixed", "verified", "complete"}

\* The resolved predicate: the status or the resolution field holds one of
\* the keywords, or the fix text is longer than 10 characters.
IsResolvedRecord(r) ==
    \/ \E kw \in ResolvedKeywords : Contains(lower(r.metadata.status), kw)
    \/ \E kw \in ResolvedKeywords : Contains(lower(r.metadata.resolution), kw)
    \/ Len(r.metadata.fix_description) > 10

\* C22: get_resolved_similar keeps a candidate, _is_resolved accepts it and
\* the context summarizer counts it in resolved_count if and only if it
\* satisfies the resolved predicate; get_resolved_similar returns the first k
\* such candidates of the 3k requested.
C22_OneResolvedPredicate ==
    /\ ret.op = "suggest_resolutions" =>
          ret.resolved = SelectSeq(ret.candidates, IsResolvedRecord)
    /\ ret.op = "_calculate_historical_insights" =>
          ret.insights.resolved_count =
              Cardinality({i \in DOMAIN ret.candidates :
                              IsResolvedRecord(ret.candidates[i])})
    /\ ret.op = "get_resolved_similar" =>
          LET kept == SelectSeq(ret.semantic, IsResolvedRecord)
          IN ret.results = SubSeq(kept, 1, IF Len(kept) < ret.n_results
                                           THEN Len(kept) ELSE ret.n_results)

---------------------------------------------------------------------------
(* find_similar without the query record (under SpecQuery) *)

\* The stored defects with another id than the query record that meet the
\* threshold.
OthersAtThreshold ==
    {i \in DOMAIN vs.defect_ids :
        /\ vs.defect_ids[i] # Get(ret.defect.Issue_key, "")
        /\ _cosine_similarity(np_array(generate_embedding(ret.query)),
                              vs.defect_embeddings[i]) >= ret.min_similarity}

\* C23: find_similar with exclude_self never returns a result whose id is the
\* query record's id, and returns exactly min(k, m) results, m being the
\* number of stored records with another id that meet the threshold.
C23_ExcludeSelfReturnsMinKM ==
    (ret.op = "find_similar" /\ ret.exclude_self) =>
        /\ \A j \in DOMAIN ret.results :
              ret.results[j].issue_key # Get(ret.defect.Issue_key, "")
        /\ Len(ret.results) = Min(ret.n_results, Cardinality(OthersAtThreshold))
---------------------------------------------------------------------------
(* The adapter within one search (under SpecOrch) *)

\* The bundle's context_summary is the empty mapping search starts with.
SummaryEmpty == orch.results.context_summary = NoOrch.results.context_summary

\* C24: within one search the adapter is requested by the two worker tasks
\* only, never by retrieval or pre-inference; and when no defect candidate and
\* no document was found the adapter is not requested at all, no task is
\* launched and context_summary stays empty.
C24_AdapterOnlyInWorkers ==
    /\ \A i \in 1..Len(orch.adapter_calls) :
          /\ orch.adapter_calls[i] \in {"ai", "summary"}
          /\ orch.launched
    /\ (orch.ai = "pending" /\ orch.summary = "pending") => orch.adapter_calls = <<>>
    /\ (orch.pc # "idle" /\ NothingFound) =>
          /\ orch.adapter_calls = <<>>
          /\ ~orch.launched
          /\ orch.ai = "none" /\ orch.summary = "none"
          /\ SummaryEmpty

\* A search with resolved candidates returned after both tasks asked the adapter.
C24_Witness ==
    /\ orch.pc = "returned"
    /\ orch.launched
    /\ resolved_of(orch.similar) # <<>>
    /\ orch.adapter_calls \in {<<"ai", "summary">>, <<"summary", "ai">>}
    /\ ~SummaryEmpty

\* A search that found nothing ended without a task and without a request.
C24_NothingFoundReached ==
    /\ orch.pc \in {"returned", "raised"}
    /\ orch.query # ""
    /\ NothingFound
    /\ orch.adapter_calls = <<>>
---------------------------------------------------------------------------
(* The four lists of a corpus, from any snapshot and any add (SpecLists) *)

\* Vector lists as long as the records, one shorter and one longer.
AnyVectors(texts) ==
    LET full == generate_embeddings(texts)
    IN {full, SubSeq(full, 1, Len(full) - 1), Append(full, <<0, 1>>)}

AddDefectsAnyVectors ==
    \E defects \in {<<RowLogin>>, <<RowLogin, RowNoKey>>} :
      \E embeddings \in AnyVectors([i \in DOMAIN defects |-> create_defect_text(defects[i])]) :
        LET r == add_defects(vs, disk, defects, embeddings)
        IN /\ vs' = r.vs
           /\ disk' = r.disk
           /\ call' = Called("add_defects", r,
                             [records |-> defects, vectors |-> embeddings])
           /\ UNCHANGED <<indexed, ret, orch, llm, script, threads>>

AddDocumentsAnyVectors ==
    \E documents \in FewChunkLists \ {<<>>} :
      \E embeddings \in AnyVectors([i \in DOMAIN documents |-> documents[i].content]) :
        LET r == add_documents(vs, disk, documents, embeddings)
        IN /\ vs' = r.vs
           /\ disk' = r.disk
           /\ call' = Called("add_documents", r,
                             [records |-> documents, vectors |-> embeddings])
           /\ UNCHANGED <<indexed, ret, orch, llm, script, threads>>

NextLists ==
    \/ Construct
    \/ AddDefectsAnyVectors
    \/ AddDocumentsAnyVectors
    \/ ClearDefects
    \/ ClearDocuments

SpecLists == InitLoad /\ [][NextLists]_vars

SameLength(ids, embeddings, metadata, texts) ==
    /\ Len(embeddings) = Len(ids)
    /\ Len(metadata) = Len(ids)
    /\ Len(texts) = Len(ids)

\* C25: in every reachable state of a VectorStore (constructed from any
\* snapshot content, after any adds and clears, adds with a shorter or longer
\* vector list included) the ids, vectors, metadata and texts of each corpus
\* have the same length, so the counts of get_collection_stats equal the
\* numbers of records the searches range over.
C25_ParallelListsSameLength ==
    /\ SameLength(vs.defect_ids, vs.defect_embeddings, vs.defect_metadata,
                  vs.defect_documents)
    /\ SameLength(vs.document_ids, vs.document_embeddings, vs.document_metadata,
                  vs.document_texts)
    /\ get_collection_stats(vs).defect_count = Len(vs.defect_embeddings)
    /\ get_collection_stats(vs).document_count = Len(vs.document_embeddings)

---------------------------------------------------------------------------
(* Two processes on one persistence directory (SpecShared): the portal's
   singleton store vs, and the store of utilities/index_knowledge_base.py *)

SharedTables == {<<<<>>, <<>>>>, <<<<RowLogin, RowNoKey>>, <<RowSameKey>>>>}
SharedTrees == {TreeOf({FileGuide}), TreeOf({FileGuide, FileNotes})}

InitShared ==
    /\ \E tables \in SharedTables, tree \in SharedTrees \cup {NoDir} :
          /\ disk = IndexedStore(tables, tree).disk
          /\ vs = IndexedStore(tables, tree).vs
    /\ indexed = FALSE
    /\ call = NoCall
    /\ ret = NoRet
    /\ orch = NoOrch
    /\ llm = NoLLM
    /\ script = NoScript
    /\ threads = NoThreads

\* main(): vector_store = VectorStore()
ScriptConstruct ==
    /\ script.pc = "none"
    /\ script' = [pc |-> "constructed", vs |-> VectorStore(disk)]
    /\ UNCHANGED <<vs, disk, indexed, call, ret, orch, llm, threads>>

\* main(): document_search.load_and_index_documents(), on a folder that
\* holds supported files.
ScriptIndexDocuments ==
    /\ script.pc = "constructed"
    /\ \E tree \in SharedTrees :
          LET r == load_and_index_documents(script.vs, disk, tree, FALSE)
          IN /\ script' = [pc |-> "indexed", vs |-> r.vs]
             /\ disk' = r.disk
             /\ call' = [NoCall EXCEPT
                           !.op = "script_index_documents",
                           !.outcome = r.outcome,
                           !.cached = Len(script.vs.document_ids),
                           !.cleared = r.cleared, !.embedded = r.embedded,
                           !.added = r.added,
                           !.defects_kept =
                               DefectCorpus(VectorStore(r.disk))
                                   = DefectCorpus(VectorStore(disk)),
                           !.documents_kept =
                               DocumentCorpus(VectorStore(r.disk))
                                   = DocumentCorpus(VectorStore(disk))]
    /\ UNCHANGED <<vs, indexed, ret, orch, llm, threads>>

\* main() returns, the process ends.
ScriptExit ==
    /\ script.pc = "indexed"
    /\ script' = NoScript
    /\ UNCHANGED <<vs, disk, indexed, call, ret, orch, llm, threads>>

NextShared ==
    \/ ScriptConstruct
    \/ ScriptIndexDocuments
    \/ ScriptExit
    \/ Construct
    \/ AddFewDefects
    \/ ClearDefects
    \/ AddFewDocuments
    \/ ClearDocuments

SpecShared == InitShared /\ [][NextShared]_vars

\* C26: a mutating call on one corpus never changes the other corpus, in
\* memory or in its snapshot, also when two VectorStore instances share the
\* directory: clear_defects and add_defects leave the documents snapshot as
\* it was, clear_documents and add_documents leave the defects snapshot as
\* it was, whichever instance wrote it.
C26_OtherCorpusUntouched ==
    /\ call.op \in {"clear_defects", "add_defects"} => call.documents_kept
    /\ call.op \in {"clear_documents", "add_documents"} => call.defects_kept
    /\ (call.op = "script_index_documents" /\ call.added) => call.defects_kept

\* The same for the calls of one instance that is alone on its directory.
C26_AloneOtherCorpusUntouched ==
    /\ call.op \in {"clear_defects", "add_defects"} => call.documents_kept
    /\ call.op \in {"clear_documents", "add_documents"} => call.defects_kept
---------------------------------------------------------------------------
(* A defect search while index_defects rebuilds the corpus (SpecRace): two
   threads on the one store, each statement of vector_store.py a step *)

RaceOld == <<<<RowLogin, RowNoKey>>, <<>>>>
RaceNew == <<<<RowPatched, RowLogin>>, <<>>>>
RaceQueries == {"login timeout", "payment page blank"}

\* The store before the reindex and after it, each complete.
OldStore == IndexedStore(RaceOld, NoDir)
NewStore == index_defects(OldStore.vs, OldStore.disk, TRUE, RaceNew[1], RaceNew[2], TRUE)

\* index_defects: all_defects and all_embeddings, as it passes them to add_defects.
RaceDefects ==
    [i \in DOMAIN RaceNew[1] |-> [RaceNew[1][i] EXCEPT !.source = "ACC"]]
        \o [i \in DOMAIN RaceNew[2] |-> [RaceNew[2][i] EXCEPT !.source = "SIT"]]

RaceEmbeddings ==
    embed_in_batches([i \in DOMAIN RaceDefects |-> create_defect_text(RaceDefects[i])], 1)

InitRace ==
    /\ vs = OldStore.vs
    /\ disk = OldStore.disk
    /\ indexed = TRUE
    /\ call = NoCall
    /\ ret = NoRet
    /\ orch = NoOrch
    /\ llm = NoLLM
    /\ script = NoScript
    /\ threads = NoThreads

WriterMidway == threads.writer.pc \notin {"idle", "clear_ids", "done"}
ReaderRunning == threads.reader.pc \notin {"idle", "done"}

\* The four attributes in the order clear_defects and add_defects assign them.
ListOrder == <<"defect_ids", "defect_embeddings", "defect_metadata", "defect_documents">>
ClearPcs == <<"clear_ids", "clear_embeddings", "clear_metadata", "clear_documents">>
ResetPcs == <<"add_ids", "add_embeddings", "add_metadata", "add_documents">>
AppendPcs == <<"append_id", "append_embedding", "append_document", "append_metadata">>

PcIndex(pcs, pc) == CHOOSE i \in DOMAIN pcs : pcs[i] = pc

\* A step of the reindexing thread: w2 is its next position. A running
\* search has now overlapped the reindex; the list object its loop walks is
\* the one bound to defect_embeddings as long as that was not rebound.
WriterStep(w2, s2) ==
    threads' = [threads EXCEPT
                  !.writer = w2,
                  !.reader.overlapped = @ \/ ReaderRunning,
                  !.reader.loop_list =
                      IF threads.reader.pc = "loop"
                         /\ threads.reader.loop_gen = threads.writer.gen
                         /\ w2.gen = threads.writer.gen
                      THEN s2.defect_embeddings ELSE @]

\* index_defects(force_reindex=True) up to its call of clear_defects.
WriterBegin ==
    /\ threads.writer.pc = "idle"
    /\ threads' = [threads EXCEPT !.writer.pc = "clear_ids"]
    /\ UNCHANGED <<vs, disk, indexed, call, ret, orch, llm, script>>

\* Rebinding one attribute to a new empty list.
Rebind(pcs, after) ==
    LET w == threads.writer
        n == PcIndex(pcs, w.pc)
        s2 == [vs EXCEPT ![ListOrder[n]] = <<>>]
    IN /\ vs' = s2
       /\ WriterStep([w EXCEPT !.pc = IF n < Len(pcs) THEN pcs[n + 1] ELSE after,
                               !.k = 1,
                               !.gen = IF ListOrder[n] = "defect_embeddings"
                                       THEN @ + 1 ELSE @], s2)
       /\ UNCHANGED <<disk, indexed, call, ret, orch, llm, script>>

\* clear_defects: self.defect_ids = [] ... self.defect_documents = []
ClearAssign ==
    /\ \E i \in DOMAIN ClearPcs : threads.writer.pc = ClearPcs[i]
    /\ Rebind(ClearPcs, "clear_save")

\* clear_defects: self._save_to_disk(); index_defects then embeds the rows.
ClearSave ==
    /\ threads.writer.pc = "clear_save"
    /\ disk' = _save_to_disk(vs)
    /\ WriterStep([threads.writer EXCEPT !.pc = "add_ids"], vs)
    /\ UNCHANGED <<vs, indexed, call, ret, orch, llm, script>>

\* add_defects: the four lists are emptied again.
AddReset ==
    /\ \E i \in DOMAIN ResetPcs : threads.writer.pc = ResetPcs[i]
    /\ Rebind(ResetPcs, "append_id")

\* add_defects: one append of the loop body, for record k.
AddAppend ==
    /\ \E i \in DOMAIN AppendPcs : threads.writer.pc = AppendPcs[i]
    /\ LET w == threads.writer
           n == PcIndex(AppendPcs, w.pc)
           k == w.k
           s2 == CASE n = 1 -> [vs EXCEPT !.defect_ids =
                                   Append(@, issue_key(RaceDefects[k], k))]
                   [] n = 2 -> [vs EXCEPT !.defect_embeddings =
                                   Append(@, np_array(RaceEmbeddings[k]))]
                   [] n = 3 -> [vs EXCEPT !.defect_documents =
                                   Append(@, defect_doc_text(RaceDefects[k]))]
                   [] n = 4 -> [vs EXCEPT !.defect_metadata =
                                   Append(@, defect_meta(RaceDefects[k], k))]
       IN /\ vs' = s2
          /\ WriterStep([w EXCEPT
                           !.pc = IF n < 4 THEN AppendPcs[n + 1]
                                  ELSE IF k < Len(RaceDefects) THEN "append_id"
                                  ELSE "add_save",
                           !.k = IF n = 4 THEN k + 1 ELSE k], s2)
    /\ UNCHANGED <<disk, indexed, call, ret, orch, llm, script>>

\* add_defects: self._save_to_disk(); index_defects sets _indexed and returns.
AddSave ==
    /\ threads.writer.pc = "add_save"
    /\ disk' = _save_to_disk(vs)
    /\ indexed' = TRUE
    /\ WriterStep([threads.writer EXCEPT !.pc = "done"], vs)
    /\ UNCHANGED <<vs, call, ret, orch, llm, script>>

\* Mutant of result_entry: the similarity is reported as it is, unrounded.
result_entry_raw(issue_key_, sim, metadata, document) ==
    [issue_key |-> issue_key_, similarity |-> sim,
     metadata |-> metadata, document |-> document]

\* search_similar_defects: the dict appended for one (idx, sim) pair.
result_entry(issue_key_, sim, metadata, document) ==
    [issue_key |-> issue_key_, similarity |-> round_percent(sim),
     metadata |-> metadata, document |-> document]

\* search_by_text and search_similar_defects up to 'if not self.defect_embeddings'.
ReaderStart ==
    /\ threads.reader.pc = "idle"
    /\ \E query \in RaceQueries, n_results \in 1..2 :
          threads' = [threads EXCEPT
                        !.reader = [NoThreads.reader EXCEPT
                            !.pc = IF vs.defect_embeddings = <<>>
                                   THEN "done" ELSE "capture",
                            !.outcome = IF vs.defect_embeddings = <<>>
                                        THEN "returned" ELSE "none",
                            !.query = query, !.n_results = n_results,
                            !.min_similarity = 0,
                            !.overlapped = WriterMidway]]
    /\ UNCHANGED <<vs, disk, indexed, call, ret, orch, llm, script>>

\* for i, emb in enumerate(self.defect_embeddings): the list object is taken.
ReaderCapture ==
    /\ threads.reader.pc = "capture"
    /\ threads' = [threads EXCEPT !.reader.pc = "loop",
                                  !.reader.loop_gen = threads.writer.gen,
                                  !.reader.loop_list = vs.defect_embeddings,
                                  !.reader.i = 1]
    /\ UNCHANGED <<vs, disk, indexed, call, ret, orch, llm, script>>

\* One turn of the similarity loop, or its end and the sort and slice.
ReaderIter ==
    /\ threads.reader.pc = "loop"
    /\ LET r == threads.reader
           query_vec == np_array(generate_embedding(r.query))
       IN IF r.i <= Len(r.loop_list)
          THEN LET sim == _cosine_similarity(query_vec, r.loop_list[r.i])
               IN threads' = [threads EXCEPT
                                !.reader.i = r.i + 1,
                                !.reader.similarities =
                                    IF sim >= r.min_similarity
                                    THEN Append(@, [idx |-> r.i, sim |-> sim])
                                    ELSE @]
          ELSE LET top == first_n(sort_descending(r.similarities), r.n_results)
               IN threads' = [threads EXCEPT
                                !.reader.top = top, !.reader.j = 1,
                                !.reader.pc = IF top = <<>> THEN "done" ELSE "build",
                                !.reader.outcome =
                                    IF top = <<>> THEN "returned" ELSE "none"]
    /\ UNCHANGED <<vs, disk, indexed, call, ret, orch, llm, script>>

\* One subscript of the result dict: self.defect_ids[idx], then
\* self.defect_metadata[idx], then self.defect_documents[idx].
ReaderBuild ==
    /\ threads.reader.pc = "build"
    /\ LET r == threads.reader
           idx == r.top[r.j].idx
           list == CASE Len(r.partial) = 0 -> vs.defect_ids
                     [] Len(r.partial) = 1 -> vs.defect_metadata
                     [] Len(r.partial) = 2 -> vs.defect_documents
       IN IF idx > Len(list)
          THEN threads' = [threads EXCEPT !.reader.pc = "done",
                                          !.reader.outcome = "IndexError",
                                          !.reader.results = <<>>]
          ELSE IF Len(r.partial) < 2
          THEN threads' = [threads EXCEPT !.reader.partial = Append(@, list[idx])]
          ELSE threads' = [threads EXCEPT
                             !.reader.partial = <<>>,
                             !.reader.results =
                                 Append(@, result_entry(r.partial[1], r.top[r.j].sim,
                                                        r.partial[2], list[idx])),
                             !.reader.j = r.j + 1,
                             !.reader.pc = IF r.j < Len(r.top) THEN "build" ELSE "done",
                             !.reader.outcome =
                                 IF r.j < Len(r.top) THEN "none" ELSE "returned"]
    /\ UNCHANGED <<vs, disk, indexed, call, ret, orch, llm, script>>

NextRace ==
    \/ WriterBegin
    \/ ClearAssign
    \/ ClearSave
    \/ AddReset
    \/ AddAppend
    \/ AddSave
    \/ ReaderStart
    \/ ReaderCapture
    \/ ReaderIter
    \/ ReaderBuild

SpecRace == InitRace /\ [][NextRace]_vars

\* What the search returns on the complete corpus s.
SearchOn(s) ==
    search_by_text(s, threads.reader.query, threads.reader.n_results,
                   threads.reader.min_similarity)

\* The search returned, with the results of the corpus before or after.
ReturnedFromOneCorpus ==
    /\ threads.reader.outcome = "returned"
    /\ threads.reader.results \in {SearchOn(OldStore.vs), SearchOn(NewStore.vs)}

\* The steps of the reindexing thread add up to index_defects.
ReindexInSteps ==
    threads.writer.pc = "done" => (vs = NewStore.vs /\ disk = NewStore.disk)

\* C27 as stated: a defect search that runs concurrently with index_defects
\* never raises, and its results pair each id with the metadata and text of
\* that record, all from the complete corpus before the reindex or all from
\* the complete corpus after it.
C27_ConcurrentSearchSeesOneCorpus ==
    threads.reader.pc = "done" => ReturnedFromOneCorpus

\* C27, amended: the same of a defect search that does not overlap the
\* reindex: it runs before clear_defects has changed the store or after
\* add_defects has returned.
C27_SearchApartFromReindexSeesOneCorpus ==
    (threads.reader.pc = "done" /\ ~threads.reader.overlapped)
        => ReturnedFromOneCorpus

\* A search that started after the reindex was done returned its two records.
C27_Witness ==
    /\ threads.reader.pc = "done"
    /\ ~threads.reader.overlapped
    /\ threads.writer.pc = "done"
    /\ Len(threads.reader.results) = 2
    /\ threads.reader.results = SearchOn(NewStore.vs)

---------------------------------------------------------------------------
(* The two tasks and the mapping they share (under SpecOrch) *)

\* The bundle parts the two tasks give when run one after the other on the
\* pre-inference output, with the texts the adapter gave them.
SequentialSuggestions ==
    LET base == IF orch.similar # <<>>
                THEN suggest_resolutions(query_defect(orch.query), orch.similar)
                ELSE NoSuggestions
    IN IF resolved_of(orch.similar) # <<>> /\ llm.ollama_available
          /\ orch.ai_generated.outcome = "returned"
       THEN [base EXCEPT !.ai_suggestions = orch.ai_generated.text]
       ELSE base

SequentialSummary ==
    LET base == IF orch.similar # <<>>
                THEN suggest_resolutions(query_defect(orch.query), orch.similar)
                ELSE NoSuggestions
        fields == summary_fields(query_defect(orch.query), orch.similar,
                                 orch.results.related_documents, base)
    IN [fields EXCEPT !.full_summary =
           IF llm.ollama_available /\ orch.summary_generated.outcome = "returned"
           THEN orch.summary_generated.text
           ELSE _generate_fallback_summary(fields)]

\* C28: task (a) writes only ai_suggestions of the shared mapping and task
\* (b) reads only its root_causes, so under every interleaving of the two
\* tasks the returned suggestions, root causes and context_summary are those
\* of the tasks run one after the other.
C28_InterleavingsGiveSequentialBundle ==
    (orch.pc = "returned" /\ orch.launched) =>
        /\ orch.results.resolution_suggestions = SequentialSuggestions
        /\ orch.results.context_summary = SequentialSummary

\* Task (a) stored its text before task (b) started, and the summary still
\* names the root cause found by pre-inference.
C28_Witness ==
    /\ orch.pc = "returned"
    /\ orch.launched
    /\ orch.finished = <<"ai", "summary">>
    /\ orch.adapter_calls = <<"ai", "summary">>
    /\ orch.results.resolution_suggestions.ai_suggestions # ""
    /\ orch.results.resolution_suggestions.root_causes # <<>>
    /\ orch.results.context_summary = SequentialSummary
---------------------------------------------------------------------------
(* The corpus count after an unforced index_defects (under Spec) *)

UnforcedIndexReturned ==
    /\ call.op = "index_defects"
    /\ call.outcome = "returned"
    /\ ~call.force
    /\ call.total > 0

\* C29: after index_defects(rows, force_reindex=false) with a non-empty row
\* set returns, the defect corpus count lies within the 5% tolerance of the
\* source size, 0.95 * len(rows) <= count <= len(rows): a source that has
\* shrunk leaves no records of removed rows in the corpus.
C29_CountWithinTolerance ==
    UnforcedIndexReturned =>
        /\ get_collection_stats(vs).defect_count * TOLERANCE_DEN
              >= call.total * TOLERANCE_NUM
        /\ get_collection_stats(vs).defect_count <= call.total

\* The lower bound alone.
C29_CountAtLeastTolerance ==
    UnforcedIndexReturned =>
        get_collection_stats(vs).defect_count * TOLERANCE_DEN
            >= call.total * TOLERANCE_NUM
---------------------------------------------------------------------------
(* How many documents a document search returns (under SpecQuery) *)

\* The files that have at least one chunk meeting the threshold of the call.
MatchingFiles ==
    LET hits == search_documents(vs, generate_embedding(ret.query),
                                 Len(vs.document_ids), ret.min_similarity)
    IN {hits[i].metadata.filename : i \in DOMAIN hits}

\* C30: DocumentSearch.search(query, n) returns min(n, d) results, d being
\* the number of distinct files with at least one chunk meeting the
\* threshold: deduplication by filename never leaves fewer than n results
\* while other matching files exist.
C30_ReturnsMinOfNAndMatchingFiles ==
    (/\ ret.op = "document_search"
     /\ ret.outcome = "returned"
     /\ ~BlankText(ret.query))
        => Len(ret.results) = Min(ret.n_results, Cardinality(MatchingFiles))

\* At most that many are returned.
C30_AtMostMinOfNAndMatchingFiles ==
    (/\ ret.op = "document_search"
     /\ ret.outcome = "returned"
     /\ ~BlankText(ret.query))
        => Len(ret.results) <= Min(ret.n_results, Cardinality(MatchingFiles))
====
